---- MODULE Spec2Model ----
(***************************************************************************)
(* Candidate Assessment Engine: the cached, externally assisted answer     *)
(* evaluation (optimized_deepseek.py, deepseek_ai.py) and the session      *)
(* handling of its callers (professional_app.py, voice_interview_app.py,   *)
(* huggingface_mcp_server.py), and the pure functions of the verdict, the  *)
(* session results, the profile extraction, the dimensions of an answer    *)
(* and the extreme questions (advanced_evaluator.py, professional_app.py,  *)
(* enhanced_resume_parser.py, extreme_questions.py).                       *)
(*                                                                         *)
(* Conventions.  A Python str that the code slices or splits is a sequence *)
(* of one-character strings.  None is the record None.  A dict is a        *)
(* function from field names.  A float that is a number of hundredths is   *)
(* kept as an integer number of thousandths (confidence) or tenths (the    *)
(* intermediate score of _basic_evaluation), so no rounding is lost.       *)
(* hashlib.md5(x).hexdigest()[:n] is represented by x itself: two digests  *)
(* are equal exactly when the hashed texts are (no collisions).            *)
(***************************************************************************)
EXTENDS Integers, Sequences, FiniteSets, TLC

VARIABLES
    use_ai,      \* OptimizedDeepSeekAI.use_ai
    cache,       \* the files of ai_cache/: cache key -> file state
    th,          \* per calling thread: where it is inside a method of the engine
    prev,        \* history: an earlier evaluate_answer call that has returned
    cache_first, \* history: cache key -> the first complete value stored under it
    n_off,       \* history: evaluate_answer calls returned since toggle_ai(False)
    ds,          \* per calling thread: where it is inside DeepSeekAI.evaluate_answer
    session_storage,  \* voice_interview_app.session_storage: session key -> dict object
    heap,             \* the dict objects session_storage refers to
    session_data,     \* huggingface_mcp_server.session_data, the server's one dict
    mcp_stdin,        \* the pipe to the MCP server process: requests not yet read
    mcp_stdout,       \* the pipe from it: response lines not yet read
    vth,              \* per request thread of the voice app: where its handler is
    professional_session,  \* professional_app.professional_session
    pth,              \* per request thread of professional_app: where its handler is
    calls             \* the latest applications of the pure functions: name, arguments, result

optVars == <<use_ai, cache, th, prev, cache_first, n_off>>
dsVars == <<ds>>
voiceVars == <<session_storage, heap, session_data, mcp_stdin, mcp_stdout, vth>>
profVars == <<professional_session, pth>>
callVars == <<calls>>
notOptVars == <<dsVars, voiceVars, profVars, callVars>>

----------------------------------------------------------------------------
(* Python values *)

None == [py |-> "None"]
EmptyDict == [k \in {} |-> 0]

Min(a, b) == IF a < b THEN a ELSE b
Max(a, b) == IF a > b THEN a ELSE b

SP == " "

RECURSIVE Rep(_, _)
Rep(w, n) == IF n = 0 THEN <<>> ELSE w \o Rep(w, n - 1)

\* s[:n]
Take(s, n) == SubSeq(s, 1, Min(n, Len(s)))

\* mutant: only the empty string counts as no answer
IsBlank_empty_only(s) == s = <<>>

\* not s.strip()
IsBlank(s) == \A i \in 1..Len(s) : s[i] = SP

\* len(s.split())
WordCount(s) ==
    Cardinality({i \in 1..Len(s) : s[i] # SP /\ (i = 1 \/ s[i - 1] = SP)})

\* hashlib.md5(x.encode()).hexdigest()[:n]
md5_hexdigest(x) == x

\* dict.get(k, default)
Get(d, k, default) == IF k \in DOMAIN d THEN d[k] ELSE default

\* dict.setdefault(k, v)
SetDefault(d, k, v) == IF k \in DOMAIN d THEN d ELSE d @@ (k :> v)

\* the truth value of a list or of a dict or of None
Truthy(v) ==
    /\ v # None
    /\ DOMAIN v # {}
    /\ ("items" \in DOMAIN v /\ "py" \in DOMAIN v) => v.items # <<>>

PyList(items) == [py |-> "list", items |-> items]

----------------------------------------------------------------------------
(* Program constants of optimized_deepseek.py *)

MinAIWords == 30          \* word_count < 30
AnswerPrefix == 100       \* answer[:100]
QuestionPrefix == 50      \* question[:50]
ResumePrefix == 500       \* resume_text[:500]
ApiTimeout == 15          \* timeout=15
TopSkills == 3            \* questions_data[:3]

(* Inputs *)

ShortWords == 5
LongWords == 40
LongerWords == 50

WordAB == <<"a", "b", SP>>
WordBA == <<"b", "a", SP>>

AnsEmpty == <<>>
AnsBlank == <<SP, SP>>
AnsShort == Rep(WordAB, ShortWords)
AnsLongA == Rep(WordAB, LongWords)
AnsLongB == Rep(WordAB, LongerWords)    \* the first 100 characters of AnsLongA, then more
AnsLongC == Rep(WordBA, LongWords)
\* AnsLongA with two spaces after its first word
AnsLongSp == <<"a", "b", SP, SP>> \o Rep(WordAB, LongWords - 1)

Answers == {AnsEmpty, AnsBlank, AnsShort, AnsLongA, AnsLongB, AnsLongC}

QuestionTech == <<"q", "t">>
QuestionDesign == <<"q", "d">>
Questions == {QuestionTech, QuestionDesign}

Roles == {"Backend Developer"}
EvalRoles == Roles \cup {"Data Scientist"}

----------------------------------------------------------------------------
(* OptimizedDeepSeekAI: the local evaluations *)

Dimensions == {"technical_mastery", "problem_solving", "communication",
               "innovation", "leadership", "system_thinking"}

_poor_evaluation ==
    [overall_score |-> 20,
     dimension_scores |->
        [technical_mastery |-> 20, problem_solving |-> 20, communication |-> 10,
         innovation |-> 20, leadership |-> 30, system_thinking |-> 20],
     detailed_feedback |-> "No response provided. Please provide a detailed answer.",
     hiring_decision |-> [decision |-> "No Hire", confidence |-> 900]]

\* score10 is ten times the float score = min(85, max(30, words * 1.2));
\* int() of a non-negative float is the floor; confidence is in thousandths.
_basic_evaluation(answer) ==
    LET words == IF answer # <<>> THEN WordCount(answer) ELSE 0
        score10 == Min(850, Max(300, 12 * words))
    IN  [overall_score |-> score10 \div 10,
         dimension_scores |->
            [technical_mastery |-> score10 \div 10,
             problem_solving |-> Max(0, (score10 - 50) \div 10),
             communication |-> Min(100, words * 2),
             innovation |-> Max(0, (score10 - 100) \div 10),
             leadership |-> Max(0, (score10 - 150) \div 10),
             system_thinking |-> Max(0, (score10 - 50) \div 10)],
         detailed_feedback |->
            IF words > 10
            THEN "AI evaluation not available. Consider adding more technical details."
            ELSE "Response too short for proper evaluation.",
         hiring_decision |->
            [decision |-> IF score10 >= 650 THEN "Hire" ELSE "No Hire",
             confidence |-> Min(900, Max(500, score10))]]

(* The content of the remote reply, response['choices'][0]['message']['content']:
   shape "null"     content is None                        (re.search raises TypeError)
         "text"     no {...} in it                          (json_match is None)
         "badjson"  {...} that json.loads rejects           (raises)
         "badscore" a JSON object whose score is no number  (max(0, score) raises)
         "json"     a JSON object, data its fields *)
_parse_evaluation(content, answer) ==
    IF content.shape = "json"
    THEN LET eval_data == content.data
             score == Min(100, Max(0, Get(eval_data, "score", 60)))
         IN  [overall_score |-> score,
              dimension_scores |->
                 [technical_mastery |-> score,
                  problem_solving |-> Max(0, score - 5),
                  communication |-> Min(100, WordCount(answer) * 2),
                  innovation |-> Max(0, score - 10),
                  leadership |-> Max(0, score - 15),
                  system_thinking |-> Max(0, score - 5)],
              detailed_feedback |->
                 Get(eval_data, "feedback", "Score: " \o ToString(score) \o "/100"),
              hiring_decision |->
                 [decision |-> Get(eval_data, "decision",
                                   IF score >= 70 THEN "Hire" ELSE "No Hire"),
                  confidence |-> Min(1000, Max(100, 10 * score))]]
    ELSE _basic_evaluation(answer)

----------------------------------------------------------------------------
(* OptimizedDeepSeekAI: question sets and resume analysis *)

\* str.lower() of the mixed-case strings of the model
Lower(s) ==
    CASE s = "Backend Developer" -> "backend developer"
      [] s = "Python" -> "python"
      [] s = "AWS" -> "aws"
      [] s = "Senior" -> "senior"
      [] s = "Mid-level" -> "mid-level"
      [] s = "Junior" -> "junior"
      [] s = "Entry-level" -> "entry-level"
      [] OTHER -> s

_fallback_questions(role) ==
    PyList(<<
        [question |-> "Describe a challenging " \o Lower(role) \o " project you've worked on.",
         category |-> "Technical", difficulty |-> "intermediate",
         evaluation_criteria |-> <<"Technical depth", "Problem-solving", "Communication">>],
        [question |-> "How do you ensure code quality in " \o Lower(role) \o " development?",
         category |-> "Best Practices", difficulty |-> "intermediate",
         evaluation_criteria |-> <<"Best practices", "Testing", "Quality assurance">>],
        [question |-> "Explain your approach to system design for " \o Lower(role) \o " applications.",
         category |-> "System Design", difficulty |-> "advanced",
         evaluation_criteria |-> <<"Architecture", "Scalability", "Trade-offs">>]
    >>)

(* The content of a reply to the question prompt:
   shape "null"      content is None                         (re.search raises)
         "text"      no [...] in it
         "list"      a JSON list of objects, data its elements
         "notdicts"  a JSON list whose elements are no objects (q.get raises)
         "badjson_q" [...] that json.loads rejects, data the texts "q":"..." in it
         "badjson"   [...] that json.loads rejects, with no "q":"..." in it *)
_parse_questions(content, role) ==
    CASE content.shape = "list" ->
            PyList([i \in 1..Min(TopSkills, Len(content.data)) |->
                LET q == content.data[i]
                IN  [question |-> Get(q, "q", Get(q, "question", "")),
                     category |-> Get(q, "cat", Get(q, "category", "Technical")),
                     difficulty |-> Get(q, "diff", Get(q, "difficulty", "intermediate")),
                     evaluation_criteria |->
                        <<"Technical accuracy", "Problem-solving", "Communication">>]])
      [] content.shape = "badjson_q" /\ content.data # <<>> ->
            PyList([i \in 1..Min(TopSkills, Len(content.data)) |->
                [question |-> content.data[i],
                 category |-> "Technical", difficulty |-> "intermediate",
                 evaluation_criteria |->
                    <<"Technical accuracy", "Problem-solving", "Communication">>]])
      [] OTHER -> _fallback_questions(role)

SelectSeq2(s, set) == SelectSeq(s, LAMBDA x : Lower(x) \in set)

(* The content of a reply to the resume prompt:
   shape "null", "text" as above
         "json"           a JSON object, data its fields
         "badjson_fields" {...} that json.loads rejects; data holds the fields the
                          regular expressions still find (name, skills, experience_years)
         "badjson"        {...} that json.loads rejects and no field is found *)
_parse_resume_analysis(content) ==
    CASE content.shape = "json" ->
            LET data == content.data
            IN  IF "skills" \in DOMAIN data
                THEN [data EXCEPT !["skills"] =
                        [all_skills |-> data.skills,
                         total_count |-> Len(data.skills),
                         technical_by_category |->
                            [programming_languages |->
                                SelectSeq2(data.skills, {"python", "java", "javascript", "go", "rust", "c++"}),
                             web_technologies |->
                                SelectSeq2(data.skills, {"react", "angular", "vue", "django", "flask"}),
                             databases |->
                                SelectSeq2(data.skills, {"mysql", "postgresql", "mongodb", "redis"}),
                             cloud_platforms |->
                                SelectSeq2(data.skills, {"aws", "azure", "gcp"}),
                             devops_tools |->
                                SelectSeq2(data.skills, {"docker", "kubernetes", "jenkins"})],
                         soft_skills |->
                            SelectSeq2(data.skills, {"leadership", "communication", "teamwork"})]]
                ELSE data
      [] content.shape = "badjson_fields" ->
            IF "skills" \in DOMAIN content.data
            THEN [content.data EXCEPT !["skills"] =
                    [all_skills |-> content.data.skills,
                     total_count |-> Len(content.data.skills)]]
            ELSE content.data
      [] OTHER -> None

\* analysis.setdefault(...), lines 163-168
RequiredFields(analysis) ==
    SetDefault(SetDefault(SetDefault(SetDefault(SetDefault(SetDefault(analysis,
        "name", "Candidate"),
        "skills", PyList(<<>>)),
        "experience_years", 0),
        "ats_score", 50),
        "technical_depth", 40),
        "leadership_score", 30)

----------------------------------------------------------------------------
(* OptimizedDeepSeekAI: the remote call and the cache *)

(* What requests.post does:
   kind "exception"  a transport error        kind "timeout"  requests.exceptions.Timeout
   kind "http"       a reply with status code `code`, and body what response.json() gives:
        shape "invalid"    response.json() raises
              "empty"      the JSON object {}
              "nochoices"  a JSON object without choices[0].message.content
              "ok"         a JSON object with it, content as described above *)
_api_call(resp) ==
    IF resp.kind = "http" /\ resp.code = 200
    THEN CASE resp.body.shape = "invalid" -> None
           [] resp.body.shape = "empty" -> EmptyDict
           [] OTHER -> resp.body
    ELSE None

\* response['choices'][0]['message']['content'] raises
NoContent(response) == response.shape = "nochoices"

NoFile == [file |-> "absent"]
Truncated == [file |-> "empty"]          \* open(cache_file, 'w') done, nothing written yet
Stored(data) == [file |-> "complete", data |-> data]

\* mutant: the lookup never finds the file
_get_cache_miss(key) == None

\* os.path.exists is False: None.  json.load of an empty file raises: None.
_get_cache(key) ==
    IF cache[key].file = "complete" THEN cache[key].data ELSE None

\* line 80-82
eval_cache_key(question, answer, role) ==
    [kind |-> "eval", role |-> role,
     question_hash |-> md5_hexdigest(Take(question, QuestionPrefix)),
     answer_hash |-> md5_hexdigest(Take(answer, AnswerPrefix))]

\* line 31-33; str(list) keeps the order of the list
questions_cache_key(resume_data, role) ==
    [kind |-> "q", role |-> role,
     exp_level |-> Get(resume_data, "experience_years", 0),
     skills_hash |-> md5_hexdigest(Get(resume_data, "skills", <<>>))]

\* line 127-128
resume_cache_key(resume_text) ==
    [kind |-> "resume_full", text_hash |-> md5_hexdigest(Take(resume_text, ResumePrefix))]

----------------------------------------------------------------------------
(* Inputs: resumes and remote replies *)

ResumeData1 == [experience_years |-> 5, skills |-> <<"Python", "AWS">>]
ResumeData2 == [experience_years |-> 5, skills |-> <<"AWS", "Python">>]
ResumeDatas == {ResumeData1, ResumeData2}

ResumeBlank == <<SP>>
ResumeText1 == <<"c", "v">>
ResumeTexts == {ResumeBlank, ResumeText1}

Content(shape, data) == [shape |-> shape, data |-> data]

EvalJson ==
    {[score |-> 80, feedback |-> "Good answer", decision |-> "Hire"],
     EmptyDict,
     [score |-> 40, feedback |-> ""]}
EvalContents ==
    {Content(sh, EmptyDict) : sh \in {"null", "text", "badjson", "badscore"}}
        \cup {Content("json", d) : d \in EvalJson}

\* replies whose score is outside 0..100 or whose decision is no verdict
ScoreJson ==
    {[score |-> 150], [score |-> -5], [score |-> 80, decision |-> "Maybe"]}
ScoreContents == {Content("json", d) : d \in ScoreJson}

QuestionContents ==
    {Content(sh, <<>>) : sh \in {"null", "text", "notdicts", "badjson", "list"}}
        \cup {Content("list", <<[q |-> "Why Python?", cat |-> "Technical"],
                                [question |-> "Why AWS?"]>>),
              Content("badjson_q", <<"Why Python?">>)}

ResumeContents ==
    {Content(sh, EmptyDict) : sh \in {"null", "text", "badjson", "json"}}
        \cup {Content("json", [name |-> "Ann", skills |-> <<"Python", "leadership">>,
                               experience_years |-> 3]),
              Content("badjson_fields", [name |-> "Ann"])}

Http(code, body) == [kind |-> "http", code |-> code, body |-> body]
Failures ==
    {[kind |-> k, code |-> 0, body |-> None] : k \in {"exception", "timeout"}}
        \cup {Http(500, None)}
        \cup {Http(200, [shape |-> sh, content |-> None]) :
                sh \in {"invalid", "empty", "nochoices"}}
Replies(contents) ==
    Failures \cup {Http(200, [shape |-> "ok", content |-> c]) : c \in contents}

RepliesTo(op) ==
    CASE op = "evaluate_answer" -> Replies(EvalContents \cup ScoreContents)
      [] op = "generate_questions" -> Replies(QuestionContents)
      [] op = "analyze_resume" -> Replies(ResumeContents)

CacheKeys ==
    {eval_cache_key(q, a, r) : q \in Questions, a \in Answers \cup {AnsLongSp}, r \in EvalRoles}
        \cup {questions_cache_key(rd, r) : rd \in ResumeDatas, r \in Roles}
        \cup {resume_cache_key(x) : x \in ResumeTexts}

----------------------------------------------------------------------------
(* OptimizedDeepSeekAI: the methods, as steps of a calling thread *)

Threads == {1, 2}
SessionLen == 5       \* a full session of 5 answers

Idle ==
    [pc |-> "idle", op |-> "none", args |-> None, ai |-> TRUE, key |-> None,
     looked |-> NoFile, outcome |-> "none", val |-> None, result |-> None,
     trace |-> <<>>]

NoCall == [op |-> "none", args |-> None, ai |-> TRUE, trace |-> <<>>]

\* __init__, lines 9-23: api_key is the argument, environ_key the value of
\* os.getenv("DEEPSEEK_API_KEY"); line 14 assigns use_ai only when there is no
\* key, line 18 assigns it in every construction
__init__(api_key, environ_key) ==
    LET key == IF Truthy(api_key) THEN api_key ELSE environ_key
        line14 == IF ~Truthy(key) THEN [use_ai |-> FALSE] ELSE EmptyDict
        line18 == [use_ai |-> TRUE]
    IN  [api_key |-> key, use_ai |-> Get(line18, "use_ai", Get(line14, "use_ai", None))]

\* the instance constructed with no key; use_ai is the same with a key
InitOpt ==
    /\ use_ai = __init__(None, None).use_ai
    /\ cache = [k \in CacheKeys |-> NoFile]
    /\ th = [t \in Threads |-> Idle]
    /\ prev = NoCall
    /\ cache_first = [k \in CacheKeys |-> None]
    /\ n_off = 0

\* mutant: the toggle is not consulted
LocalOnly_ignoring_toggle(answer) == WordCount(answer) < MinAIWords

\* line 76: the answer is evaluated locally
LocalOnly(answer) == ~use_ai \/ WordCount(answer) < MinAIWords

\* mutant: a found entry is not returned
CacheHit_never(cached) == FALSE

\* `if cached:` lines 36, 85, 131
CacheHit(cached) == Truthy(cached)

\* the method returns `result`
Finish(c, result) == [c EXCEPT !.pc = "done", !.result = result]

\* cached = self._get_cache(cache_key); if cached: return cached; else the remote call
Lookup(c, key) ==
    LET d == [c EXCEPT !.key = key, !.looked = cache[key], !.trace = <<"get">>]
    IN  IF CacheHit(_get_cache(key))
        THEN Finish(d, _get_cache(key))
        ELSE [d EXCEPT !.pc = "api"]

Enter(op, args) == [Idle EXCEPT !.op = op, !.args = args, !.ai = use_ai]

\* evaluate_answer, lines 69-86: up to the return or the remote call
EvaluateEntry(question, answer, role) ==
    LET c == Enter("evaluate_answer",
                   [question |-> question, answer |-> answer, role |-> role])
    IN  IF IsBlank(answer) THEN Finish(c, _poor_evaluation)
        ELSE IF LocalOnly(answer) THEN Finish(c, _basic_evaluation(answer))
        ELSE Lookup(c, eval_cache_key(question, answer, role))

EvaluateAnswer(t, question, answer, role) ==
    /\ th[t].pc = "idle"
    /\ th' = [th EXCEPT ![t] = EvaluateEntry(question, answer, role)]
    /\ UNCHANGED <<use_ai, cache, prev, cache_first, n_off, notOptVars>>

\* generate_questions, lines 25-37
GenerateQuestions(t, resume_data, role) ==
    /\ th[t].pc = "idle"
    /\ LET c == Enter("generate_questions", [resume_data |-> resume_data, role |-> role])
       IN  th' = [th EXCEPT ![t] =
                IF ~use_ai THEN Finish(c, _fallback_questions(role))
                ELSE Lookup(c, questions_cache_key(resume_data, role))]
    /\ UNCHANGED <<use_ai, cache, prev, cache_first, n_off, notOptVars>>

\* analyze_resume, lines 121-132
AnalyzeResume(t, resume_text) ==
    /\ th[t].pc = "idle"
    /\ LET c == Enter("analyze_resume", [resume_text |-> resume_text])
       IN  th' = [th EXCEPT ![t] =
                IF ~use_ai \/ IsBlank(resume_text) THEN Finish(c, None)
                ELSE Lookup(c, resume_cache_key(resume_text))]
    /\ UNCHANGED <<use_ai, cache, prev, cache_first, n_off, notOptVars>>

\* what the method returns when nothing is stored: lines 67, 119, 176
Fallback(c) ==
    CASE c.op = "evaluate_answer" -> _basic_evaluation(c.args.answer)
      [] c.op = "generate_questions" -> _fallback_questions(c.args.role)
      [] c.op = "analyze_resume" -> None

\* the parsed reply: lines 59, 111, 159-168
Parsed(c, content) ==
    CASE c.op = "evaluate_answer" -> _parse_evaluation(content, c.args.answer)
      [] c.op = "generate_questions" -> _parse_questions(content, c.args.role)
      [] c.op = "analyze_resume" ->
            IF Truthy(_parse_resume_analysis(content))
            THEN RequiredFields(_parse_resume_analysis(content))
            ELSE _parse_resume_analysis(content)

\* `if questions:`, `if evaluation:`, `if analysis:` lines 60, 112, 161
WorthCaching(value) == Truthy(value)

\* history: was the reply an assist result, or a failed or soft-failed call
Outcome(op, resp) ==
    IF ~Truthy(_api_call(resp)) \/ NoContent(_api_call(resp)) THEN "unavailable"
    ELSE LET sh == resp.body.content.shape
             data == resp.body.content.data
         IN  CASE op = "evaluate_answer" ->
                    IF sh = "json" THEN "parsed" ELSE "unparseable"
               [] op = "generate_questions" ->
                    IF (sh = "list" \/ sh = "badjson_q") /\ data # <<>>
                    THEN "parsed" ELSE "unparseable"
               [] op = "analyze_resume" ->
                    IF (sh = "json" \/ sh = "badjson_fields") /\ DOMAIN data # {}
                    THEN "parsed" ELSE "unparseable"

\* the remote call returns or fails: lines 50-67, 102-119, 150-176
ApiReturn(t, resp) ==
    /\ th[t].pc = "api"
    /\ resp \in RepliesTo(th[t].op)
    /\ LET c == [th[t] EXCEPT !.trace = Append(@, "api"),
                              !.outcome = Outcome(th[t].op, resp)]
           response == _api_call(resp)
       IN  th' = [th EXCEPT ![t] =
                IF Truthy(response) /\ ~NoContent(response)
                   /\ WorthCaching(Parsed(c, response.content))
                THEN [c EXCEPT !.pc = "set_cache", !.val = Parsed(c, response.content)]
                ELSE Finish(c, Fallback(c))]
    /\ UNCHANGED <<use_ai, cache, prev, cache_first, n_off, notOptVars>>

\* _set_cache, line 391: open(cache_file, 'w') truncates the file
SetCacheOpen(t) ==
    /\ th[t].pc = "set_cache"
    /\ cache' = [cache EXCEPT ![th[t].key] = Truncated]
    /\ th' = [th EXCEPT ![t].pc = "dump"]
    /\ UNCHANGED <<use_ai, prev, cache_first, n_off, notOptVars>>

\* _set_cache, line 392, and the return of the stored value
SetCacheDump(t) ==
    /\ th[t].pc = "dump"
    /\ cache' = [cache EXCEPT ![th[t].key] = Stored(th[t].val)]
    /\ cache_first' = [cache_first EXCEPT ![th[t].key] =
                        IF @ = None THEN th[t].val ELSE @]
    /\ th' = [th EXCEPT ![t] = Finish([th[t] EXCEPT !.trace = Append(@, "set")], th[t].val)]
    /\ UNCHANGED <<use_ai, prev, n_off, notOptVars>>

Summary(c) == [op |-> c.op, args |-> c.args, ai |-> c.ai, trace |-> c.trace]

\* the caller has the result; the histories record the call
Return(t, remember, count) ==
    /\ th[t].pc = "done"
    /\ th' = [th EXCEPT ![t] = Idle]
    /\ prev' = IF remember /\ th[t].op = "evaluate_answer" THEN Summary(th[t]) ELSE prev
    /\ n_off' = IF count /\ th[t].op = "evaluate_answer" /\ ~th[t].ai /\ ~use_ai
                THEN Min(n_off + 1, SessionLen) ELSE n_off
    /\ UNCHANGED <<use_ai, cache, cache_first, notOptVars>>

\* toggle_ai, lines 396-399
ToggleAI(enabled) ==
    /\ use_ai' = enabled
    /\ n_off' = 0
    /\ UNCHANGED <<cache, th, prev, cache_first, notOptVars>>

----------------------------------------------------------------------------
(* DeepSeekAI (deepseek_ai.py): evaluate_answer, which has no cache *)

Seconds(n) == [py |-> "seconds", n |-> n]

\* _api_call passes timeout=15; the requests.post of DeepSeekAI.evaluate_answer
\* (lines 75-87) passes no timeout, which requests takes as "wait for ever"
DeepSeekAI_timeout == None

\* score = min(85, max(30, words * 2)); confidence in thousandths
DeepSeekAI_basic_evaluation(answer) ==
    LET words == IF answer # <<>> THEN WordCount(answer) ELSE 0
        score == Min(85, Max(30, words * 2))
    IN  [overall_score |-> score,
         dimension_scores |->
            [technical_mastery |-> score, problem_solving |-> score - 5,
             communication |-> Min(80, words), innovation |-> score - 10,
             leadership |-> 65, system_thinking |-> score - 5],
         detailed_feedback |-> "Response evaluated. Score based on content depth and clarity.",
         hiring_decision |->
            [decision |-> IF score >= 65 THEN "Hire" ELSE "No Hire", confidence |-> 700]]

(* content as for OptimizedDeepSeekAI; shape "badscore" is a JSON object whose
   technical_score is no number, so that `- 10` raises *)
DeepSeekAI_parse_evaluation(content) ==
    IF content.shape = "json"
    THEN LET eval_data == content.data
         IN  [overall_score |-> Get(eval_data, "overall_score", 60),
              dimension_scores |->
                 [technical_mastery |-> Get(eval_data, "technical_score", 60),
                  problem_solving |-> Get(eval_data, "problem_solving_score", 60),
                  communication |-> Get(eval_data, "communication_score", 60),
                  innovation |-> Get(eval_data, "technical_score", 60) - 10,
                  leadership |-> 70,
                  system_thinking |-> Get(eval_data, "problem_solving_score", 60)],
              detailed_feedback |-> Get(eval_data, "feedback", "Good response"),
              hiring_decision |->
                 [decision |-> Get(eval_data, "decision", "Hire"), confidence |-> 800]]
    ELSE DeepSeekAI_basic_evaluation(<<>>)

DSEvalJson ==
    {[overall_score |-> 75, technical_score |-> 70, communication_score |-> 80,
      problem_solving_score |-> 65, feedback |-> "Solid answer", decision |-> "Hire"],
     EmptyDict,
     [overall_score |-> 150, technical_score |-> 5]}
DSContents ==
    {Content(sh, EmptyDict) : sh \in {"null", "text", "badjson", "badscore"}}
        \cup {Content("json", d) : d \in DSEvalJson}

\* what requests.post can do: requests.exceptions.Timeout only if a timeout is passed
DSReplies == {r \in Replies(DSContents) : r.kind = "timeout" => DeepSeekAI_timeout # None}

DSIdle == [pc |-> "idle", args |-> None, outcome |-> "none", result |-> None]

InitDS == ds = [t \in Threads |-> DSIdle]

\* lines 89-97: what evaluate_answer returns once requests.post has returned or raised
DeepSeekAI_result(answer, resp) ==
    IF resp.kind = "http" /\ resp.code = 200 /\ resp.body.shape = "ok"
    THEN DeepSeekAI_parse_evaluation(resp.body.content)
    ELSE DeepSeekAI_basic_evaluation(answer)

\* history: the class of the reply
DSOutcome(resp) ==
    IF resp.kind = "http" /\ resp.code = 200 /\ resp.body.shape = "ok"
    THEN IF resp.body.content.shape = "json" THEN "parsed" ELSE "unparseable"
    ELSE "unavailable"

\* evaluate_answer, lines 54-87: up to the call of requests.post
DeepSeekAI_evaluate_answer(t, question, answer, role) ==
    /\ ds[t].pc = "idle"
    /\ LET c == [DSIdle EXCEPT !.args = [question |-> question, answer |-> answer,
                                         role |-> role]]
       IN  ds' = [ds EXCEPT ![t] =
                IF IsBlank(answer)
                THEN [c EXCEPT !.pc = "done", !.result = _poor_evaluation]
                ELSE [c EXCEPT !.pc = "post"]]
    /\ UNCHANGED <<optVars, voiceVars, profVars, callVars>>

\* requests.post returns or raises: lines 89-97
DeepSeekAI_post_returns(t, resp) ==
    /\ ds[t].pc = "post"
    /\ resp \in DSReplies
    /\ ds' = [ds EXCEPT ![t] =
                [ds[t] EXCEPT !.pc = "done", !.outcome = DSOutcome(resp),
                              !.result = DeepSeekAI_result(ds[t].args.answer, resp)]]
    /\ UNCHANGED <<optVars, voiceVars, profVars, callVars>>

\* the caller has the evaluation
DeepSeekAI_return(t) ==
    /\ ds[t].pc = "done"
    /\ ds' = [ds EXCEPT ![t] = DSIdle]
    /\ UNCHANGED <<optVars, voiceVars, profVars, callVars>>

----------------------------------------------------------------------------
(* huggingface_mcp_server.py: the tools of the MCP server.
   A transcribed answer is the sequence of its lower-case words; the words of the
   model contain a keyword only when they are that keyword, so `keyword in
   answer.lower()` is membership.  Scores that the code keeps as floats are kept in
   tenths, the weighted overall score in thousandths, the confidence of the
   recommendation in hundred-thousandths.  Timestamps are left out.  json.dumps
   followed by json.loads gives back a value made of dicts with string keys, lists,
   strings and numbers unchanged, and the values here are of that kind. *)

Put(d, k, v) == (k :> v) @@ d

SkillQuestions == 3            \* skills[:3]
BehavioralQuestions == 2       \* behavioral_questions[:2]

KeywordHits(answer, keywords) ==
    Cardinality({k \in keywords : \E i \in 1..Len(answer) : answer[i] = k})

\* analyze_voice_characteristics: clarity, confidence in thousandths
analyze_voice_characteristics ==
    [clarity |-> 800, pace |-> "moderate", confidence |-> 750,
     filler_words |-> 2, duration_seconds |-> 45]

\* evaluate_technical_content .. evaluate_system_thinking and evaluate_communication,
\* in tenths
hf_dimension_scores10(answer, voice_metrics) ==
    LET words == Len(answer)
        Kw(bonus, keywords, per_word, floor) ==
            Min(1000, Max(10 * floor, 10 * bonus * KeywordHits(answer, keywords)
                                        + per_word * words))
    IN  [technical_mastery |->
            Kw(5, {"algorithm", "architecture", "framework", "database", "api",
                   "system", "performance"}, 8, 30),
         problem_solving |->
            Kw(6, {"analyze", "approach", "solution", "strategy", "method", "process"}, 9, 25),
         communication |->
            Min(1000, Min(900, Max(300, 15 * words))
                      + (IF voice_metrics # EmptyDict
                         THEN 10 * (Get(voice_metrics, "clarity", 500) \div 100
                                    + Get(voice_metrics, "confidence", 500) \div 100)
                         ELSE 0)),
         innovation |->
            Kw(8, {"creative", "innovative", "new", "improve", "optimize", "efficient"}, 6, 15),
         leadership |->
            Kw(10, {"lead", "manage", "team", "mentor", "coordinate", "collaborate"}, 5, 10),
         system_thinking |->
            Kw(7, {"system", "architecture", "design", "scalable", "integration",
                   "component"}, 7, 20)]

\* generate_detailed_feedback: the parts joined by a space
generate_detailed_feedback(scores10, voice_metrics) ==
    (IF scores10.technical_mastery >= 800
        THEN "Strong technical knowledge demonstrated."
     ELSE IF scores10.technical_mastery >= 600
        THEN "Good technical understanding, consider adding more specific examples."
     ELSE "Technical knowledge needs improvement. Focus on core concepts.")
    \o (IF voice_metrics = EmptyDict THEN ""
        ELSE IF Get(voice_metrics, "clarity", 0) > 800
        THEN " Excellent verbal communication clarity."
        ELSE " Consider speaking more clearly and at a moderate pace.")

\* the evaluation built by evaluate_answer_with_hf, lines 344-389
hf_evaluation(answer, voice_metrics) ==
    LET s == hf_dimension_scores10(answer, voice_metrics)
        overall1000 == 25 * s.technical_mastery + 20 * s.problem_solving
                       + 20 * s.communication + 15 * s.innovation
                       + 10 * s.leadership + 10 * s.system_thinking
    IN  [overall_score |-> overall1000 \div 1000,
         dimension_scores |-> [d \in Dimensions |-> s[d] \div 10],
         detailed_feedback |-> generate_detailed_feedback(s, voice_metrics),
         voice_analysis |-> voice_metrics,
         hiring_recommendation |->
            [decision |-> IF overall1000 >= 80000 THEN "Strong Hire"
                          ELSE IF overall1000 >= 65000 THEN "Hire" ELSE "No Hire",
             confidence |-> Min(95000, Max(40000, overall1000)),
             reasoning |->
                IF overall1000 >= 80000
                THEN "Strong performance across all dimensions. Candidate demonstrates excellent technical and communication skills."
                ELSE IF overall1000 >= 65000
                THEN "Good overall performance with some areas for improvement. Suitable for the role with proper onboarding."
                ELSE "Performance below expectations. Candidate needs significant improvement before being ready for this role."]]

\* round(total / n, 1) in tenths; a tie goes to the even tenth
Round1(total, n) ==
    LET fl == (20 * total) \div (2 * n)
        rem == (20 * total) % (2 * n)
    IN  IF rem < n \/ (rem = n /\ fl % 2 = 0) THEN fl ELSE fl + 1

RECURSIVE Sum(_)
Sum(s) == IF s = <<>> THEN 0 ELSE Head(s) + Sum(Tail(s))

\* the report of complete_interview_with_hf, lines 415-454 (job_recommendations and
\* learning_path, derived from the same averages, are left out)
hf_report(session_id, evaluations, candidate_data) ==
    LET n == Len(evaluations)
        total == Sum([i \in 1..n |-> evaluations[i].evaluation.overall_score])
        level == IF total >= 85 * n THEN "EXCELLENT - Senior Level Ready"
                 ELSE IF total >= 70 * n THEN "GOOD - Mid-Senior Level"
                 ELSE "DEVELOPING"
    IN  [interview_summary |->
            [session_id |-> session_id, total_questions |-> n,
             overall_score |-> Round1(total, n), performance_level |-> level],
         candidate_profile |-> candidate_data,
         performance_analysis |->
            [overall_score |-> Round1(total, n),
             dimension_scores |->
                [d \in Dimensions |->
                    Round1(Sum([i \in 1..n |-> evaluations[i].evaluation.dimension_scores[d]]), n)]],
         detailed_evaluations |-> evaluations,
         next_steps |->
            IF total >= 80 * n
            THEN <<"Apply for senior-level positions", "Prepare for system design interviews">>
            ELSE IF total >= 65 * n
            THEN <<"Apply for mid-level positions", "Practice coding interviews">>
            ELSE <<"Focus on fundamental skill building", "Complete relevant online courses">>]

\* generate_questions_with_hf, lines 257-285
hf_questions(role, skills, experience_level) ==
    LET skill_questions ==
            [i \in 1..Min(SkillQuestions, Len(skills)) |->
                [question |-> "Describe your experience with " \o skills[i]
                              \o " and how you've used it in real projects.",
                 category |-> "Technical", difficulty |-> experience_level,
                 skill_focus |-> skills[i], expected_duration |-> 3]]
        role_questions ==
            CASE role = "Frontend Developer" ->
                    <<[question |-> "Explain your approach to responsive web design and cross-browser compatibility.",
                       category |-> "Technical", difficulty |-> experience_level,
                       expected_duration |-> 4]>>
              [] role = "Backend Developer" ->
                    <<[question |-> "How do you design scalable APIs and handle database optimization?",
                       category |-> "System Design", difficulty |-> experience_level,
                       expected_duration |-> 6]>>
              [] OTHER ->
                    <<[question |-> "Describe your approach to writing clean, maintainable code.",
                       category |-> "Technical", difficulty |-> experience_level,
                       expected_duration |-> 4],
                      [question |-> "How do you handle debugging complex issues in production?",
                       category |-> "Problem Solving", difficulty |-> experience_level,
                       expected_duration |-> 5]>>
        behavioral ==
            <<[question |-> "Tell me about a challenging project you worked on and how you overcame obstacles.",
               category |-> "Behavioral", difficulty |-> experience_level,
               expected_duration |-> 4],
              [question |-> "Describe a time when you had to work with a difficult team member.",
               category |-> "Behavioral", difficulty |-> experience_level,
               expected_duration |-> 3]>>
        questions == skill_questions \o role_questions \o Take(behavioral, BehavioralQuestions)
    IN  [role |-> role, questions |-> questions, total_questions |-> Len(questions),
         experience_level |-> experience_level,
         estimated_duration |-> Sum([i \in 1..Len(questions) |-> questions[i].expected_duration])]

\* determine_seniority
determine_seniority(experience_years) ==
    IF experience_years >= 8 THEN "Senior"
    ELSE IF experience_years >= 4 THEN "Mid-level"
    ELSE IF experience_years >= 1 THEN "Junior" ELSE "Entry-level"

\* the result of analyze_resume_with_hf, lines 172-187; `resume` is what the
\* extraction functions find in the file (the scores computed from the text are left out)
hf_analysis(resume, target_role) ==
    [candidate_info |-> [name |-> resume.name],
     skills |-> resume.skills,
     professional_profile |->
        [experience_years |-> resume.experience_years,
         seniority_level |-> determine_seniority(resume.experience_years)],
     target_role |-> target_role]

\* the result of process_voice_with_hf, lines 307-329; `heard` is what the speech
\* recognizer makes of the audio file, None when it raises
hf_voice_result(heard, question) ==
    [transcription |-> [text |-> heard.text, confidence |-> Get(heard, "confidence", 800),
                        word_count |-> Len(heard.text)],
     voice_metrics |-> analyze_voice_characteristics,
     question |-> question]

\* call_tool, lines 132-147: the text the tool returns for a request
ToolText(name, a) ==
    CASE name = "analyze_resume_hf" ->
            Content("json", hf_analysis(a.file_path, Get(a, "target_role", "Software Engineer")))
      [] name = "generate_questions_hf" ->
            Content("json", hf_questions(a.role, Get(a, "skills", <<>>),
                                         Get(a, "experience_level", "intermediate")))
      [] name = "process_voice_answer" ->
            IF a.audio_file = None
            THEN Content("text", "Voice processing error")
            ELSE Content("json", hf_voice_result(a.audio_file, Get(a, "question", "")))
      [] name = "evaluate_answer_hf" ->
            Content("json", hf_evaluation(a.answer, Get(a, "voice_metrics", EmptyDict)))
      [] name = "complete_interview_hf" ->
            IF Get(session_data, "evaluations", <<>>) = <<>>
            THEN Content("text", "No interview data available")
            ELSE Content("json", hf_report(Get(a, "session_id", "default"),
                                           session_data.evaluations,
                                           Get(session_data, "candidate_analysis", EmptyDict)))

\* what the tool leaves in the server's session_data: lines 190, 288-290, 392-400
ToolSessionData(name, a) ==
    CASE name = "analyze_resume_hf" ->
            Put(session_data, "candidate_analysis", ToolText(name, a).data)
      [] name = "generate_questions_hf" ->
            Put(Put(Put(session_data, "interview_questions", ToolText(name, a).data),
                    "current_question_index", 0), "evaluations", <<>>)
      [] name = "evaluate_answer_hf" ->
            Put(session_data, "evaluations",
                Append(Get(session_data, "evaluations", <<>>),
                       [question |-> a.question, answer |-> a.answer,
                        evaluation |-> ToolText(name, a).data,
                        voice_metrics |-> Get(a, "voice_metrics", EmptyDict)]))
      [] OTHER -> session_data

\* the server reads a request line, runs the tool and writes the response line
McpServe ==
    /\ mcp_stdin # <<>>
    /\ LET req == Head(mcp_stdin)
       IN  /\ session_data' = ToolSessionData(req.name, req.arguments)
           /\ mcp_stdout' = Append(mcp_stdout,
                                   [id |-> req.id, text |-> ToolText(req.name, req.arguments)])
    /\ mcp_stdin' = Tail(mcp_stdin)
    /\ UNCHANGED <<session_storage, heap, vth, optVars, dsVars, profVars, callVars>>

----------------------------------------------------------------------------
(* voice_interview_app.py: the request handlers and call_mcp_tool.
   get_session_data hands out the stored dict itself, so a handler changes the
   stored session in place: session_storage maps a key to an object of `heap`,
   object 0 standing for the fresh {} of a key that is not stored. *)

MaxAnswers == 1       \* answers a client uploads in one interview
MaxTime == 1          \* values of int(time.time())
VoiceWords == 10

VSessions == {"voice_s1", "voice_s2"}
VAnswerA == Rep(<<"we", "optimize", "the", "system">>, VoiceWords)
VAnswerB == <<"i", "lead", "the", "team">>
\* what the recognizer hears in the audio of a session: the sessions say different things
VHeard(sid) == IF sid = "voice_s1" THEN [text |-> VAnswerA] ELSE [text |-> VAnswerB]
VResumes == {[name |-> "Ann", skills |-> <<"Python">>, experience_years |-> 9]}

\* call_mcp_tool waits in mcp_process.stdout.readline() (line 126), which has no timeout
readline_timeout == None

ObjIds == 1..(Cardinality(VSessions) + MaxTime + Cardinality(Threads))

VIdle ==
    [pc |-> "idle", handler |-> "none", sid |-> "none", ref |-> 0, stage |-> "none",
     local |-> EmptyDict, response |-> None]

InitVoice ==
    /\ session_storage = EmptyDict
    /\ heap = [o \in ObjIds |-> EmptyDict]
    /\ session_data = EmptyDict
    /\ mcp_stdin = <<>>
    /\ mcp_stdout = <<>>
    /\ vth = [t \in Threads |-> VIdle]

\* get_session_data, lines 68-71
get_session_data(session_id) ==
    IF session_id \in DOMAIN session_storage THEN session_storage[session_id] ELSE 0

Deref(ref) == IF ref = 0 THEN EmptyDict ELSE heap[ref]

Refs(storage, threads) ==
    ({storage[k] : k \in DOMAIN storage} \cup {threads[t].ref : t \in Threads}) \ {0}

\* a dict no variable refers to is gone
Collect(h, storage, threads) ==
    [o \in ObjIds |-> IF o \in Refs(storage, threads) THEN h[o] ELSE EmptyDict]

NewObject ==
    CHOOSE o \in ObjIds :
        /\ o \notin Refs(session_storage, vth)
        /\ \A p \in ObjIds : p \notin Refs(session_storage, vth) => o <= p

\* lines 110-123: the request line; the uuid is the issuing thread
McpRequest(t, tool_name, arguments) ==
    [id |-> t, name |-> tool_name, arguments |-> arguments]

\* lines 127-137: what call_mcp_tool returns for a response line
McpResult(line) ==
    IF line.text.shape = "json" THEN line.text.data
    ELSE [error |-> "Expecting value"]

IsError(result) == "error" \in DOMAIN result

VEnter(handler, sid) ==
    [VIdle EXCEPT !.handler = handler, !.sid = sid, !.ref = get_session_data(sid)]

VDone(c, response) == [c EXCEPT !.pc = "done", !.response = response]

VCall(c, stage) == [c EXCEPT !.pc = "readline", !.stage = stage]

\* f"voice_interview_{int(time.time())}", line 441
StampKey(now) == "voice_interview_" \o ToString(now)

\* the question the page was shown and sends back as question_data
ShownQuestion(d) ==
    LET questions == Get(d.interview_questions, "questions", <<>>)
        index == Get(d, "current_question_index", 0)
    IN  IF index < Len(questions) THEN questions[index + 1] ELSE EmptyDict

\* upload_resume, lines 151-190
upload_resume(t, sid, resume, role) ==
    /\ vth[t].pc = "idle"
    /\ vth' = [vth EXCEPT ![t] =
                VCall([VIdle EXCEPT !.handler = "upload_resume", !.sid = sid,
                                    !.local = [role |-> role]], "analyze")]
    /\ mcp_stdin' = Append(mcp_stdin,
                           McpRequest(t, "analyze_resume_hf",
                                      [file_path |-> resume, target_role |-> role]))
    /\ UNCHANGED <<session_storage, heap, session_data, mcp_stdout,
                   optVars, dsVars, profVars, callVars>>

\* start_voice_interview, lines 240-262
start_voice_interview(t, sid) ==
    /\ vth[t].pc = "idle"
    /\ LET c == VEnter("start_voice_interview", sid)
           d == Deref(c.ref)
           started == "candidate_analysis" \in DOMAIN d
       IN  /\ vth' = [vth EXCEPT ![t] =
                    IF started THEN VCall(c, "questions")
                    ELSE VDone(c, [error |-> "No resume analysis found. Please upload resume first."])]
           /\ mcp_stdin' =
                IF started
                THEN Append(mcp_stdin,
                        McpRequest(t, "generate_questions_hf",
                            [role |-> Get(d, "role", "Software Engineer"),
                             skills |-> Get(d.candidate_analysis, "skills", <<>>),
                             experience_level |->
                                Lower(Get(Get(d.candidate_analysis, "professional_profile",
                                              EmptyDict),
                                          "seniority_level", "intermediate"))]))
                ELSE mcp_stdin
    /\ UNCHANGED <<session_storage, heap, session_data, mcp_stdout,
                   optVars, dsVars, profVars, callVars>>

\* upload_voice_answer, lines 322-366
upload_voice_answer(t, sid, heard) ==
    /\ vth[t].pc = "idle"
    /\ LET c == VEnter("upload_voice_answer", sid)
           d == Deref(c.ref)
           active == "interview_questions" \in DOMAIN d
       IN  /\ active => Len(d.voice_evaluations) < MaxAnswers
           /\ vth' = [vth EXCEPT ![t] =
                    IF active
                    THEN VCall([c EXCEPT !.local = [question_data |-> ShownQuestion(d)]],
                               "voice")
                    ELSE VDone(c, [error |-> "No active interview session"])]
           /\ mcp_stdin' =
                IF active
                THEN Append(mcp_stdin,
                        McpRequest(t, "process_voice_answer",
                            [audio_file |-> heard,
                             question |-> Get(ShownQuestion(d), "question", "")]))
                ELSE mcp_stdin
    /\ UNCHANGED <<session_storage, heap, session_data, mcp_stdout,
                   optVars, dsVars, profVars, callVars>>

\* complete_voice_interview, lines 430-445
complete_voice_interview(t, sid, now) ==
    /\ vth[t].pc = "idle"
    /\ LET c == VEnter("complete_voice_interview", sid)
           answered == Get(Deref(c.ref), "voice_evaluations", <<>>) # <<>>
       IN  /\ vth' = [vth EXCEPT ![t] =
                    IF answered
                    THEN VCall([c EXCEPT !.local = [session_id |-> StampKey(now)]], "complete")
                    ELSE VDone(c, [error |-> "No interview data available"])]
           /\ mcp_stdin' =
                IF answered
                THEN Append(mcp_stdin,
                        McpRequest(t, "complete_interview_hf", [session_id |-> StampKey(now)]))
                ELSE mcp_stdin
    /\ UNCHANGED <<session_storage, heap, session_data, mcp_stdout,
                   optVars, dsVars, profVars, callVars>>

\* download_voice_report, lines 466-475
download_voice_report(t, sid) ==
    /\ vth[t].pc = "idle"
    /\ LET c == VEnter("download_voice_report", sid)
       IN  vth' = [vth EXCEPT ![t] =
                IF "final_report" \in DOMAIN Deref(c.ref)
                THEN VDone(c, [report |-> Deref(c.ref).final_report])
                ELSE VDone(c, [error |-> "No completed interview report available"])]
    /\ UNCHANGED <<session_storage, heap, session_data, mcp_stdin, mcp_stdout,
                   optVars, dsVars, profVars, callVars>>

\* mutant: the report is put into a copy of the session, stored under the new key
StoreReport_in_copy(c, result) ==
    [heap |-> [heap EXCEPT ![NewObject] = Put(Deref(c.ref), "final_report", result)],
     storage |-> Put(session_storage, c.local.session_id, NewObject)]

\* complete_voice_interview, lines 450-453: session_data is the stored dict of
\* the cookie's key; it gets the report and is stored under the new session_id
StoreReport(c, result) ==
    [heap |-> [heap EXCEPT ![c.ref] = Put(Deref(c.ref), "final_report", result)],
     storage |-> Put(session_storage, c.local.session_id, c.ref)]

\* the handler goes on with what call_mcp_tool returned: lines 192-203, 264-274,
\* 368-399, 447-453.  c is the thread, `send` the next request line if there is one.
VAfter(t, c, result) ==
    LET same == [c |-> c, heap |-> heap, storage |-> session_storage, send |-> <<>>]
        d == Deref(c.ref)
    IN  CASE IsError(result) ->
                [same EXCEPT !.c = VDone(c, [error |-> c.stage])]
          [] c.stage = "analyze" ->
                [same EXCEPT
                    !.c = VDone([c EXCEPT !.ref = NewObject], [success |-> TRUE]),
                    !.heap = [heap EXCEPT ![NewObject] =
                                [candidate_analysis |-> result, role |-> c.local.role]],
                    !.storage = Put(session_storage, c.sid, NewObject)]
          [] c.stage = "questions" ->
                [same EXCEPT
                    !.c = VDone(c, [success |-> TRUE]),
                    !.heap = [heap EXCEPT ![c.ref] =
                                Put(Put(Put(d, "interview_questions", result),
                                        "current_question_index", 0),
                                    "voice_evaluations", <<>>)],
                    !.storage = Put(session_storage, c.sid, c.ref)]
          [] c.stage = "voice" ->
                [same EXCEPT
                    !.c = VCall([c EXCEPT !.local =
                                    Put(Put(c.local, "transcription",
                                            Get(result, "transcription", EmptyDict)),
                                        "voice_metrics",
                                        Get(result, "voice_metrics", EmptyDict))],
                                "evaluate"),
                    !.send = <<McpRequest(t, "evaluate_answer_hf",
                                [question |-> Get(c.local.question_data, "question", ""),
                                 answer |-> Get(Get(result, "transcription", EmptyDict),
                                                "text", <<>>),
                                 role |-> Get(d, "role", "Software Engineer"),
                                 voice_metrics |-> Get(result, "voice_metrics", EmptyDict)])>>]
          [] c.stage = "evaluate" ->
                \* lines 386-396: the append, and the read of `+= 1`
                [same EXCEPT
                    !.c = [c EXCEPT !.pc = "increment",
                                    !.local = Put(Put(c.local, "evaluation", result),
                                                  "current_question_index",
                                                  d.current_question_index)],
                    !.heap = [heap EXCEPT ![c.ref] =
                                Put(d, "voice_evaluations",
                                    Append(d.voice_evaluations,
                                           [question_data |-> c.local.question_data,
                                            transcription |-> c.local.transcription,
                                            voice_metrics |-> c.local.voice_metrics,
                                            evaluation |-> result]))]]
          [] c.stage = "complete" ->
                [same EXCEPT
                    !.c = VDone(c, [success |-> TRUE, report |-> result]),
                    !.heap = StoreReport(c, result).heap,
                    !.storage = StoreReport(c, result).storage]

\* call_mcp_tool, line 126: the next line of the pipe is taken as the response
McpReadline(t) ==
    /\ vth[t].pc = "readline"
    /\ mcp_stdout # <<>>
    /\ LET after == VAfter(t, vth[t], McpResult(Head(mcp_stdout)))
           threads == [vth EXCEPT ![t] = after.c]
       IN  /\ vth' = threads
           /\ session_storage' = after.storage
           /\ heap' = Collect(after.heap, after.storage, threads)
           /\ mcp_stdin' = mcp_stdin \o after.send
    /\ mcp_stdout' = Tail(mcp_stdout)
    /\ UNCHANGED <<session_data, optVars, dsVars, profVars, callVars>>

\* upload_voice_answer, lines 396-399: the write of `+= 1`, which is not atomic
\* with its read, and set_session_data
upload_voice_answer_increment(t) ==
    /\ vth[t].pc = "increment"
    /\ vth' = [vth EXCEPT ![t] =
                VDone(vth[t], [success |-> TRUE, evaluation |-> vth[t].local.evaluation])]
    /\ heap' = [heap EXCEPT ![vth[t].ref] =
                Put(@, "current_question_index", vth[t].local.current_question_index + 1)]
    /\ session_storage' = Put(session_storage, vth[t].sid, vth[t].ref)
    /\ UNCHANGED <<session_data, mcp_stdin, mcp_stdout, optVars, dsVars, profVars, callVars>>

\* the handler has sent its response
VReturn(t) ==
    /\ vth[t].pc = "done"
    /\ vth' = [vth EXCEPT ![t] = VIdle]
    /\ heap' = Collect(heap, session_storage, [vth EXCEPT ![t] = VIdle])
    /\ UNCHANGED <<session_storage, session_data, mcp_stdin, mcp_stdout,
                   optVars, dsVars, profVars, callVars>>

\* the handler has sent its response, and the client has it
VRespond(t) ==
    /\ vth[t].pc = "done"
    /\ vth' = [vth EXCEPT ![t] = VIdle]
    /\ heap' = Collect(heap, session_storage, [vth EXCEPT ![t] = VIdle])
    /\ calls' = Take(<<[fn |-> vth[t].handler, args |-> [session_id |-> vth[t].sid],
                        result |-> vth[t].response]>> \o calls, 2)
    /\ UNCHANGED <<session_storage, session_data, mcp_stdin, mcp_stdout,
                   optVars, dsVars, profVars>>

----------------------------------------------------------------------------
(* professional_app.py: one global session, handlers run by request threads;
   ai_engine is an OptimizedDeepSeekAI, and request thread p runs the engine's
   method as th[p] *)

\* what upload_resume stores as all_questions (lines 94-103)
ProfQuestions ==
    <<[question |-> QuestionTech, category |-> "Technical"],
      [question |-> QuestionDesign, category |-> "System Design"]>>
ProfAnswers == {AnsEmpty, AnsShort, AnsLongA}
ProfReplies ==
    {r \in Replies(EvalContents) :
        \/ r.kind = "timeout"
        \/ /\ r.code = 200 /\ r.body.shape = "ok" /\ r.body.content.shape = "json"
           /\ Get(r.body.content.data, "score", 0) = 80}

PIdle == [pc |-> "idle", handler |-> "none", local |-> EmptyDict, response |-> None]

InitProf ==
    /\ professional_session = EmptyDict
    /\ pth = [p \in Threads |-> PIdle]

PDone(c, response) == [c EXCEPT !.pc = "done", !.response = response]

\* upload_resume, lines 105-113
prof_upload_resume(candidate_data, role) ==
    /\ professional_session' =
            Put(Put(Put(Put(Put(professional_session,
                "candidate_data", candidate_data),
                "questions", ProfQuestions),
                "role", role),
                "current_question", 0),
                "evaluations", <<>>)
    /\ UNCHANGED <<pth, optVars, dsVars, voiceVars, callVars>>

\* mutant: the request at the last index is let through
AnswerRejected_past_end(s, answer) ==
    IF answer = <<>> THEN "No answer provided"
    ELSE IF "questions" \notin DOMAIN s THEN "No active session"
    ELSE IF s.current_question > Len(s.questions) THEN "No more questions"
    ELSE ""

\* submit_answer, lines 174-188: the error the request is rejected with, if any
AnswerRejected(s, answer) ==
    IF answer = <<>> THEN "No answer provided"
    ELSE IF "questions" \notin DOMAIN s THEN "No active session"
    ELSE IF s.current_question >= Len(s.questions) THEN "No more questions"
    ELSE ""

\* submit_answer, lines 177-198: up to the call of ai_engine.evaluate_answer
submit_answer(p, answer) ==
    /\ pth[p].pc = "idle"
    /\ th[p].pc = "idle"
    /\ LET c == [PIdle EXCEPT !.handler = "submit_answer", !.local = [answer |-> answer]]
           s == professional_session
           rejected == AnswerRejected(s, answer)
       IN  IF rejected # ""
           THEN /\ pth' = [pth EXCEPT ![p] = PDone(c, [error |-> rejected])]
                /\ th' = th
           ELSE IF s.current_question >= Len(s.questions)
           THEN \* questions[current] raises IndexError: the response is a 500
                /\ pth' = [pth EXCEPT ![p] = PDone(c, [error |-> "list index out of range"])]
                /\ th' = th
           ELSE /\ pth' = [pth EXCEPT ![p] =
                        [c EXCEPT !.pc = "evaluate",
                                  !.local = [current |-> s.current_question,
                                             question_data |-> s.questions[s.current_question + 1],
                                             answer |-> answer]]]
                /\ th' = [th EXCEPT ![p] =
                        EvaluateEntry(s.questions[s.current_question + 1].question,
                                      answer, s.role)]
    /\ UNCHANGED <<use_ai, cache, prev, cache_first, n_off, professional_session,
                   dsVars, voiceVars, callVars>>

\* submit_answer, lines 199-206: the evaluation is back and is appended
submit_answer_append(p) ==
    /\ pth[p].pc = "evaluate"
    /\ th[p].pc = "done"
    /\ professional_session' =
            Put(professional_session, "evaluations",
                Append(professional_session.evaluations,
                       [question_data |-> pth[p].local.question_data,
                        answer |-> pth[p].local.answer,
                        evaluation |-> th[p].result]))
    /\ pth' = [pth EXCEPT ![p] =
                [@ EXCEPT !.pc = "increment", !.local = Put(@, "evaluation", th[p].result)]]
    /\ th' = [th EXCEPT ![p] = Idle]
    /\ UNCHANGED <<use_ai, cache, prev, cache_first, n_off, dsVars, voiceVars, callVars>>

\* submit_answer, lines 208-213
submit_answer_increment(p) ==
    /\ pth[p].pc = "increment"
    /\ professional_session' =
            Put(professional_session, "current_question",
                professional_session.current_question + 1)
    /\ pth' = [pth EXCEPT ![p] =
                PDone(pth[p], [evaluation |-> pth[p].local.evaluation,
                               next_question |->
                                    professional_session.current_question + 1
                                        < Len(professional_session.questions)])]
    /\ UNCHANGED <<optVars, dsVars, voiceVars, callVars>>

\* get_question, lines 138-156
get_question(p) ==
    /\ pth[p].pc = "idle"
    /\ LET c == [PIdle EXCEPT !.handler = "get_question"]
           s == professional_session
       IN  pth' = [pth EXCEPT ![p] =
                IF "questions" \notin DOMAIN s THEN PDone(c, [error |-> "No active session"])
                ELSE IF s.current_question >= Len(s.questions)
                THEN PDone(c, [completed |-> TRUE])
                ELSE PDone(c, [question_data |-> s.questions[s.current_question + 1],
                               question_number |-> s.current_question + 1,
                               total_questions |-> Len(s.questions)])]
    /\ UNCHANGED <<professional_session, optVars, dsVars, voiceVars, callVars>>

\* the handler has sent its response
PReturn(p) ==
    /\ pth[p].pc = "done"
    /\ pth' = [pth EXCEPT ![p] = PIdle]
    /\ UNCHANGED <<professional_session, optVars, dsVars, voiceVars, callVars>>

----------------------------------------------------------------------------
(* The pure functions: advanced_evaluator.py, professional_app.py.
   `calls` keeps the latest application and the one before it, so that two
   results can be compared.  A float score is an integer number of tenths. *)

Raises == [py |-> "raises"]

InitCalls == calls = <<>>

\* `calls` after one more application
Applied(fn, args, result) ==
    Take(<<[fn |-> fn, args |-> args, result |-> result]>> \o calls, 2)

\* a JSON number of the remote analysis
Num(n) == [num |-> n]
IsNumber(x) == DOMAIN x = {"num"}

\* ai_analysis.get('calibrated_score', 0) >= n: a TypeError unless it is a number
CalibratedAtLeast(ai_analysis, n) ==
    LET calibrated_score == Get(ai_analysis, "calibrated_score", Num(0))
    IN  IF ~IsNumber(calibrated_score) THEN "raises"
        ELSE IF calibrated_score.num >= n THEN "true" ELSE "false"

\* AdvancedEvaluator._make_hiring_decision, lines 392-421; `and` evaluates its
\* right operand only when the left one is true
_make_hiring_decision(weighted_score10, ai_analysis) ==
    LET Branch(threshold, n, decision, otherwise) ==
            IF weighted_score10 >= threshold
            THEN CASE CalibratedAtLeast(ai_analysis, n) = "raises" -> Raises
                   [] CalibratedAtLeast(ai_analysis, n) = "true" -> [decision |-> decision]
                   [] OTHER -> otherwise
            ELSE otherwise
        rest == IF weighted_score10 >= 500 THEN [decision |-> "LEAN NO HIRE"]
                ELSE [decision |-> "NO HIRE"]
        lean == Branch(650, 6, "LEAN HIRE", rest)
        hire == Branch(750, 8, "HIRE", lean)
    IN  Branch(850, 9, "STRONG HIRE", hire)

\* generate_final_assessment of professional_app.py, lines 297-338: the level
generate_final_assessment(avg_score10) ==
    IF avg_score10 >= 900 THEN [level |-> "EXCEPTIONAL - Senior+ Level"]
    ELSE IF avg_score10 >= 800 THEN [level |-> "STRONG - Senior Level"]
    ELSE IF avg_score10 >= 700 THEN [level |-> "GOOD - Mid-Senior Level"]
    ELSE IF avg_score10 >= 600 THEN [level |-> "DEVELOPING - Mid Level"]
    ELSE [level |-> "FOUNDATION BUILDING NEEDED"]

\* inputs: scores around every threshold, in tenths; what the remote analysis
\* may say of calibrated_score (1-10 asked for, any JSON value possible)
DecisionScores == {499, 500, 600, 649, 650, 700, 750, 800, 850, 900}
Analyses ==
    {EmptyDict, [calibrated_score |-> None]}
        \cup {[calibrated_score |-> Num(c)] : c \in {6, 8, 9}}

make_hiring_decision(weighted_score10, ai_analysis) ==
    /\ calls' = Applied("_make_hiring_decision",
                        [score |-> weighted_score10, ai_analysis |-> ai_analysis],
                        _make_hiring_decision(weighted_score10, ai_analysis))
    /\ UNCHANGED <<optVars, dsVars, voiceVars, profVars>>

final_assessment(avg_score10) ==
    /\ calls' = Applied("generate_final_assessment", [score |-> avg_score10],
                        generate_final_assessment(avg_score10))
    /\ UNCHANGED <<optVars, dsVars, voiceVars, profVars>>

\* get_results and calculate_dimension_averages of professional_app.py.
\* sum(scores) / len(scores) is kept exact, as a fraction in lowest terms.
RECURSIVE GCD(_, _)
GCD(a, b) == IF b = 0 THEN a ELSE GCD(b, a % b)

Frac(n, d) == [num |-> n \div GCD(n, d), den |-> d \div GCD(n, d)]

\* mutant: a running average, ((x1 + x2) / 2 + x3) / 2 ...
RECURSIVE Mean_running(_)
Mean_running(scores) ==
    IF Len(scores) = 1 THEN Frac(scores[1], 1)
    ELSE LET before == Mean_running(SubSeq(scores, 1, Len(scores) - 1))
         IN  Frac(before.num + scores[Len(scores)] * before.den, 2 * before.den)

\* sum(scores) / len(scores), lines 224 and 351
Mean(scores) == Frac(Sum(scores), Len(scores))

\* calculate_dimension_averages, lines 340-351: the scores of a dimension are
\* collected in the order of the evaluations that have it
calculate_dimension_averages(evaluations) ==
    LET dims == UNION {DOMAIN evaluations[i].evaluation.dimension_scores :
                            i \in DOMAIN evaluations}
        scores(dim) ==
            LET HasDim(eval_data) == dim \in DOMAIN eval_data.evaluation.dimension_scores
                with == SelectSeq(evaluations, HasDim)
            IN  [i \in DOMAIN with |-> with[i].evaluation.dimension_scores[dim]]
    IN  [dim \in dims |-> Mean(scores(dim))]

\* get_results, lines 220-268: what it computes from the evaluations;
\* sum(...) / len(...) of no evaluation raises ZeroDivisionError
get_results(evaluations) ==
    IF evaluations = <<>> THEN Raises
    ELSE LET overall_scores ==
                [i \in DOMAIN evaluations |-> evaluations[i].evaluation.overall_score]
             avg_score == Mean(overall_scores)
         IN  [performance_summary |->
                [overall_score |-> Round1(Sum(overall_scores), Len(overall_scores)),
                 final_assessment |->
                    generate_final_assessment((10 * avg_score.num) \div avg_score.den)],
              avg_score |-> avg_score,
              dimension_analysis |-> calculate_dimension_averages(evaluations),
              detailed_evaluations |-> evaluations,
              total_questions |-> Len(evaluations)]

\* inputs: sessions of up to MaxEvals evaluations, in every order
MaxEvals == 3
AggEvaluations ==
    {_poor_evaluation, _basic_evaluation(AnsShort),
     _parse_evaluation(Content("json", [score |-> 85]), AnsLongA)}
EvalData(e) == [evaluation |-> e]
EvaluationLists ==
    UNION {[1..n -> {EvalData(e) : e \in AggEvaluations}] : n \in 0..MaxEvals}

results(evaluations) ==
    /\ calls' = Applied("get_results", [evaluations |-> evaluations],
                        get_results(evaluations))
    /\ UNCHANGED <<optVars, dsVars, voiceVars, profVars>>

\* get_results, lines 215-273, as a request of professional_app; an exception
\* that leaves the handler is answered with a 500
prof_get_results(p) ==
    /\ pth[p].pc = "idle"
    /\ LET c == [PIdle EXCEPT !.handler = "get_results"]
           s == professional_session
       IN  pth' = [pth EXCEPT ![p] =
                IF "evaluations" \notin DOMAIN s
                THEN PDone(c, [error |-> "No completed interview"])
                ELSE IF get_results(s.evaluations) = Raises
                THEN PDone(c, [error |-> "division by zero"])
                ELSE PDone(c, [results |-> get_results(s.evaluations)])]
    /\ UNCHANGED <<professional_session, optVars, dsVars, voiceVars, callVars>>

----------------------------------------------------------------------------
(* enhanced_resume_parser.py: EnhancedResumeParser.parse_resume.
   A document text is a sequence of lines.  A line is one of
     kind "name"     "Ann Lee"                 kind "email"    "al@x.io"
          "skill"    "Python"                       "years"    "<n> years of experience"
          "range"    "<start>-<end>"                "present"  "<start>-present"
          "current"  "<start>-current"
   with `chars` its length; what the regular expressions and the word lists
   of the parser find in such a line is stated by the operators below. *)

CurrentYear == 2024       \* current_year = 2024
ExperienceCap == 30       \* min(total_experience, 30)
NameLines == 5            \* lines[:5]
SummaryChars == 50        \* len(para.strip()) > 50

NameLine == [kind |-> "name", text |-> "Ann Lee", chars |-> 7]
EmailLine == [kind |-> "email", text |-> "al@x.io", chars |-> 7]
SkillLine == [kind |-> "skill", text |-> "Python", chars |-> 6]
YearsLine(n) ==
    [kind |-> "years", text |-> ToString(n) \o " years of experience", n |-> n,
     chars |-> IF n < 10 THEN 21 ELSE 22]
RangeLine(start, end) ==
    [kind |-> "range", text |-> ToString(start) \o "-" \o ToString(end),
     start |-> start, end |-> end, chars |-> 9]
PresentLine(start) ==
    [kind |-> "present", text |-> ToString(start) \o "-present", start |-> start,
     end |-> CurrentYear, chars |-> 12]
CurrentLine(start) ==
    [kind |-> "current", text |-> ToString(start) \o "-current", start |-> start,
     chars |-> 12]

OfKind(text, kinds) == LET Is(line) == line.kind \in kinds IN SelectSeq(text, Is)

SetMax(S) == IF S = {} THEN 0 ELSE CHOOSE x \in S : \A y \in S : y <= x

\* the value a function returns
Value(v) == [value |-> v]

\* _extract_experience_years, lines 201-236.  The second date pattern has one
\* group, so re.findall gives strings and `for start, end in matches` raises
\* ValueError as soon as it has a match.
_extract_experience_years(text) ==
    LET stated == OfKind(text, {"years"})
        experience == SetMax({stated[i].n : i \in DOMAIN stated})
        ranges == OfKind(text, {"range", "present"})
        total_experience ==
            Sum([i \in DOMAIN ranges |-> Max(0, ranges[i].end - ranges[i].start)])
    IN  IF OfKind(text, {"current"}) # <<>> THEN Raises
        ELSE Value(Max(experience, Min(total_experience, ExperienceCap)))

\* OptimizedDeepSeekAI._extract_experience, lines 228-261: \d{4}-\d{4} ranges
\* and "<n> year" mentions are added up
_extract_experience(text) ==
    LET year_matches == OfKind(text, {"range"})
        year_count_matches == OfKind(text, {"years"})
        experience ==
            Sum([i \in DOMAIN year_matches |-> year_matches[i].end - year_matches[i].start])
                + Sum([i \in DOMAIN year_count_matches |-> year_count_matches[i].n])
    IN  IF year_matches # <<>> \/ year_count_matches # <<>>
        THEN Value(Min(ExperienceCap, experience))
        ELSE Value(2)

\* _extract_name, lines 122-132: text.strip() has no leading empty line; a
\* line of at most 4 words without '@', digit or contact keyword is the name
_extract_name(text) ==
    LET names == OfKind(Take(text, NameLines), {"name", "skill"})
    IN  IF names # <<>> THEN names[1].text ELSE "Candidate"

\* _extract_email, lines 134-138
_extract_email(text) ==
    LET emails == OfKind(text, {"email"})
    IN  IF emails # <<>> THEN emails[1].text ELSE ""

\* _extract_skills, lines 174-199: `skill in text_lower`; 'python' is in a
\* skill line and 'r' in every line with "years", "present" or "current"
_extract_skills(text) ==
    LET programming_languages ==
            (IF OfKind(text, {"skill"}) # <<>> THEN <<"Python">> ELSE <<>>)
                \o (IF OfKind(text, {"years", "present", "current"}) # <<>>
                    THEN <<"R">> ELSE <<>>)
    IN  [all_skills |-> programming_languages,
         technical_by_category |-> [programming_languages |-> programming_languages],
         soft_skills |-> <<>>,
         total_count |-> Len(programming_languages)]

\* _extract_summary, lines 334-354: no summary section in these texts; the
\* first paragraph of more than 50 characters is taken
_extract_summary(text) ==
    LET length == Sum([i \in DOMAIN text |-> text[i].chars]) + Len(text) - 1
    IN  IF length > SummaryChars THEN [i \in DOMAIN text |-> text[i].text] ELSE <<>>

\* 1 if the string, or the list, is truthy
Given(v) == IF v = "" THEN 0 ELSE 1
GivenList(v) == IF v = <<>> THEN 0 ELSE 1

\* _calculate_ats_score, lines 356-381
_calculate_ats_score(data) ==
    Min(10 * Given(data.email) + 10 * Given(data.phone) + 5 * Given(data.location)
            + Min(data.skills.total_count * 3, 30)
            + Min(data.experience_years * 2, 20)
            + 15 * GivenList(data.education)
            + Len(data.certifications) * 5
            + 10 * GivenList(data.summary),
        100)

\* _calculate_technical_depth, lines 383-403: int(5 * skills * min(years / 5, 2))
_calculate_technical_depth(data) ==
    LET tech_skills == data.skills.technical_by_category
        count == Cardinality(UNION {{<<category, i>> : i \in DOMAIN tech_skills[category]} :
                                        category \in DOMAIN tech_skills})
    IN  Min(count * Min(data.experience_years, 10)
                + Len(data.projects) * 5 + Len(data.certifications) * 10,
            100)

\* _calculate_leadership_score, lines 405-423: no leadership keyword in these texts
_calculate_leadership_score(data) ==
    Min(Min(data.experience_years * 8, 40) + Len(data.skills.soft_skills) * 3, 100)

\* _get_fallback_data, lines 425-454
_get_fallback_data ==
    [name |-> "Candidate", email |-> "", phone |-> "", location |-> "",
     linkedin |-> "", github |-> "",
     skills |->
        [all_skills |-> <<"Python", "JavaScript", "SQL">>,
         technical_by_category |->
            [programming_languages |-> <<"Python", "JavaScript">>, databases |-> <<"SQL">>],
         soft_skills |-> <<"Communication", "Problem Solving">>,
         total_count |-> 5],
     experience_years |-> 2, education |-> <<>>, certifications |-> <<>>,
     projects |-> <<>>, work_experience |-> <<>>, languages |-> <<"English">>,
     summary |-> <<>>, ats_score |-> 45, technical_depth |-> 35,
     leadership_score |-> 25, raw_text |-> <<"Sample resume data">>]

\* parse_resume, lines 85-120, of the text extract_text gives ("" for an
\* unreadable or unsupported file)
parse_resume(text) ==
    IF text = <<>> THEN _get_fallback_data
    ELSE IF _extract_experience_years(text) = Raises THEN Raises
    ELSE LET parsed_data ==
                [name |-> _extract_name(text), email |-> _extract_email(text),
                 phone |-> "", location |-> "", linkedin |-> "", github |-> "",
                 skills |-> _extract_skills(text),
                 experience_years |-> _extract_experience_years(text).value,
                 education |-> <<>>, certifications |-> <<>>, projects |-> <<>>,
                 work_experience |-> <<>>, languages |-> <<>>,
                 summary |-> _extract_summary(text),
                 ats_score |-> 0, technical_depth |-> 0, leadership_score |-> 0,
                 raw_text |-> [i \in DOMAIN text |-> text[i].text]]
         IN  [parsed_data EXCEPT
                !.ats_score = _calculate_ats_score(parsed_data),
                !.technical_depth = _calculate_technical_depth(parsed_data),
                !.leadership_score = _calculate_leadership_score(parsed_data)]

\* inputs: texts of up to MaxLines lines
MaxLines == 3
EvidenceLines ==
    {YearsLine(5), YearsLine(40), RangeLine(2020, 2023), RangeLine(2000, 2024),
     RangeLine(2023, 2020), PresentLine(2019)}
Lines == {NameLine, EmailLine, SkillLine, CurrentLine(2021)} \cup EvidenceLines
Texts == UNION {[1..n -> Lines] : n \in 0..MaxLines}
ShortTexts == UNION {[1..n -> EvidenceLines] : n \in 0..(MaxLines - 1)}

parse(text) ==
    /\ calls' = <<[fn |-> "parse_resume", args |-> [text |-> text],
                   result |-> parse_resume(text)]>>
    /\ UNCHANGED <<optVars, dsVars, voiceVars, profVars>>

extract_experience_years(text) ==
    /\ calls' = <<[fn |-> "_extract_experience_years", args |-> [text |-> text],
                   result |-> _extract_experience_years(text)]>>
    /\ UNCHANGED <<optVars, dsVars, voiceVars, profVars>>

extract_experience(text) ==
    /\ calls' = <<[fn |-> "_extract_experience", args |-> [text |-> text],
                   result |-> _extract_experience(text)]>>
    /\ UNCHANGED <<optVars, dsVars, voiceVars, profVars>>

\* the same function applied to the same text with one more line of evidence
more_evidence(line) ==
    /\ Len(calls) = 1
    /\ calls[1].fn \in {"_extract_experience_years", "_extract_experience"}
    /\ LET text == Append(calls[1].args.text, line)
       IN  calls' = <<[fn |-> calls[1].fn, args |-> [text |-> text],
                       result |-> IF calls[1].fn = "_extract_experience"
                                  THEN _extract_experience(text)
                                  ELSE _extract_experience_years(text)],
                      calls[1]>>
    /\ UNCHANGED <<optVars, dsVars, voiceVars, profVars>>

----------------------------------------------------------------------------
(* advanced_evaluator.py: the dimensions that look at the length of the answer.
   `term in answer_lower` is a substring test, so an answer is given by the
   vocabulary terms that occur in its lowercased text, the number of its
   words, len(answer.split()), and the number of its non-empty sentences,
   the parts of answer.split('.').  A score is a number of tenths. *)

advanced_concepts ==
    {"distributed systems", "microservices", "event sourcing", "cqrs",
     "eventual consistency", "cap theorem", "acid properties", "base properties",
     "consensus algorithms", "raft", "paxos", "byzantine fault tolerance",
     "load balancing", "circuit breaker", "bulkhead pattern", "saga pattern",
     "caching strategies", "cache coherence", "memory hierarchy", "cpu cache",
     "garbage collection", "memory management", "jvm internals", "compiler optimization",
     "concurrency", "parallelism", "lock-free programming", "atomic operations",
     "database internals", "b-tree", "lsm tree", "mvcc", "isolation levels",
     "networking", "tcp/ip", "http/2", "websockets", "grpc", "message queues"}

design_principles ==
    {"scalability", "reliability", "availability", "consistency", "partition tolerance",
     "fault tolerance", "disaster recovery", "monitoring", "observability",
     "security", "authentication", "authorization", "encryption", "data privacy"}

implementation_details == {"internal", "architecture", "implementation", "optimization"}

code_quality == {"clean code", "solid principles", "design patterns", "refactoring", "testing"}

performance_terms ==
    {"performance", "optimization", "latency", "throughput", "bottleneck", "profiling"}

professional_terms ==
    {"implement", "develop", "architect", "design", "optimize", "analyze",
     "evaluate", "assess", "collaborate", "coordinate", "facilitate", "deliver"}

explanation_words ==
    {"because", "therefore", "however", "moreover", "furthermore", "consequently",
     "as a result", "in addition", "for example", "specifically", "in particular"}

confidence_words ==
    {"confident", "experienced", "successfully", "achieved", "delivered",
     "proven", "demonstrated", "expertise", "proficient", "skilled"}

\* sum(1 for term in terms if term in answer_lower)
Mentions(terms, answer) == Cardinality(terms \cap answer.terms)

\* _evaluate_technical_mastery, lines 75-119: the sub-signals summed
technical_signals(answer, candidate_profile) ==
    LET candidate_skills == Get(candidate_profile, "skills", {})
        detailed == IF implementation_details \cap answer.terms # {}
                    THEN candidate_skills \cap answer.terms ELSE {}
    IN    Min(30, Mentions(advanced_concepts, answer) * 2)
        + Min(25, Mentions(design_principles, answer) * 2)
        + 5 * Cardinality(detailed)
        + Min(15, Mentions(code_quality, answer) * 3)
        + Min(20, Mentions(performance_terms, answer) * 4)

\* _evaluate_technical_mastery, lines 121-128
_evaluate_technical_mastery(answer, candidate_profile) ==
    LET score == technical_signals(answer, candidate_profile)
        word_count == answer.word_count
        score10 == IF word_count < 100 THEN score * 5
                   ELSE IF word_count < 200 THEN score * 7
                   ELSE score * 10
    IN  Min(1000, score10)

\* _evaluate_communication_excellence, lines 179-208: the sub-signals summed
communication_signals(answer) ==
      (IF answer.sentences >= 5 THEN 20 ELSE 0)
    + Min(20, Mentions(professional_terms, answer) * 3)
    + Min(25, Mentions(explanation_words, answer) * 4)
    + Min(15, Mentions(confidence_words, answer) * 3)

\* _evaluate_communication_excellence, lines 210-219
_evaluate_communication_excellence(answer) ==
    LET word_count == answer.word_count
        signals == communication_signals(answer)
        score == IF 200 <= word_count /\ word_count <= 500 THEN signals + 20
                 ELSE IF word_count > 500 THEN signals + 10
                 ELSE IF word_count < 100 THEN signals - 20
                 ELSE signals
    IN  10 * Max(0, Min(100, score))

\* Inputs: the terms of an answer, its length and its sentences
TermSets ==
    {{},
     {"testing"},
     {"implement"},
     {"testing", "latency", "performance", "throughput", "bottleneck", "profiling"},
     {"implement", "because", "proven", "python", "architecture", "raft", "scalability"}}

WordCounts == {50, 150, 250, 600}

SentenceCounts == {1, 5}

DimensionAnswers ==
    [terms : TermSets, word_count : WordCounts, sentences : SentenceCounts]

Profiles == {[skills |-> {"python"}]}

evaluate_technical_mastery(answer, candidate_profile) ==
    /\ calls' = Applied("_evaluate_technical_mastery",
                        [answer |-> answer, candidate_profile |-> candidate_profile],
                        [value |-> _evaluate_technical_mastery(answer, candidate_profile)])
    /\ UNCHANGED <<optVars, dsVars, voiceVars, profVars>>

evaluate_communication_excellence(answer) ==
    /\ calls' = Applied("_evaluate_communication_excellence", [answer |-> answer],
                        [value |-> _evaluate_communication_excellence(answer)])
    /\ UNCHANGED <<optVars, dsVars, voiceVars, profVars>>

----------------------------------------------------------------------------
(* extreme_questions.py: ExtremeQuestions.generate_extreme_questions.
   The text of a question stands for its md5 digest.  The instance is its
   set used_questions, kept with the latest call in `calls`. *)

ExtremeCount == 8         \* for i in range(8)
FallbackCount == 8        \* len(extreme_questions) of _get_fallback_extreme_question

\* the model invocation fails, or its text is no JSON
NoQuestion == "no question"

\* _get_fallback_extreme_question, lines 90-163; the texts of the list differ
_get_fallback_extreme_question(index) ==
    [question |-> "fallback question " \o ToString(index % FallbackCount),
     difficulty |-> "extreme", expected_duration |-> 30]

\* _generate_extreme_question, lines 26-88; reply is the question of the JSON
\* text the model returned
_generate_extreme_question(reply, index) ==
    IF reply = NoQuestion THEN _get_fallback_extreme_question(index)
    ELSE [question |-> reply, difficulty |-> "extreme", expected_duration |-> 30]

\* _is_unique, lines 286-290
_is_unique(used_questions, question) == question.question \notin used_questions

\* _mark_used, lines 292-296
_mark_used(used_questions, question) == used_questions \cup {question.question}

\* generate_extreme_questions, lines 12-24: the loop from index i on;
\* replies[i + 1] is what the model returns for index i
RECURSIVE ExtremeLoop(_, _, _, _)
ExtremeLoop(i, questions, used_questions, replies) ==
    IF i = ExtremeCount
    THEN [questions |-> questions, used_questions |-> used_questions]
    ELSE LET question == _generate_extreme_question(replies[i + 1], i)
         IN  IF _is_unique(used_questions, question)
             THEN ExtremeLoop(i + 1, Append(questions, question),
                              _mark_used(used_questions, question), replies)
             ELSE ExtremeLoop(i + 1, questions, used_questions, replies)

generate_extreme_questions(used_questions, replies) ==
    ExtremeLoop(0, <<>>, used_questions, replies)

\* Inputs: what the model returns in the eight invocations of a call: nothing,
\* eight new questions, the eight of an earlier call, the same question eight
\* times, or a question in every second invocation
Invented(n) == "invented question " \o ToString(n)

ModelReplies ==
    {[i \in 1..ExtremeCount |-> NoQuestion],
     [i \in 1..ExtremeCount |-> Invented(i)],
     [i \in 1..ExtremeCount |-> Invented(ExtremeCount + i)],
     [i \in 1..ExtremeCount |-> Invented(1)],
     [i \in 1..ExtremeCount |-> IF i % 2 = 0 THEN Invented(2 * ExtremeCount + i)
                                ELSE NoQuestion]}

\* self.used_questions: empty after __init__ (line 10), then as the latest call left it
UsedQuestions ==
    IF calls # <<>> /\ calls[1].fn = "generate_extreme_questions"
    THEN calls[1].result.used_questions ELSE {}

extreme_questions(replies) ==
    /\ calls' = Applied("generate_extreme_questions",
                        [used_questions |-> UsedQuestions, replies |-> replies],
                        generate_extreme_questions(UsedQuestions, replies))
    /\ UNCHANGED <<optVars, dsVars, voiceVars, profVars>>

----------------------------------------------------------------------------
(* Specifications *)

vars == <<optVars, dsVars, voiceVars, profVars, callVars>>

Init == InitOpt /\ InitDS /\ InitVoice /\ InitProf /\ InitCalls

\* one caller after the other: evaluate_answer and toggle_ai, any earlier call remembered
NextEval ==
    \/ \E a \in Answers, r \in Roles : EvaluateAnswer(1, QuestionTech, a, r)
    \/ \E resp \in Replies(EvalContents) : ApiReturn(1, resp)
    \/ SetCacheOpen(1)
    \/ SetCacheDump(1)
    \/ \E remember \in BOOLEAN : Return(1, remember, FALSE)
    \/ \E enabled \in BOOLEAN : th[1].pc = "idle" /\ ToggleAI(enabled)

SpecEval == Init /\ [][NextEval]_vars

\* one caller after the other, the calls made with assist disabled counted
NextOff ==
    \/ \E a \in Answers, r \in Roles : EvaluateAnswer(1, QuestionTech, a, r)
    \/ \E resp \in Replies(EvalContents) : ApiReturn(1, resp)
    \/ SetCacheOpen(1)
    \/ SetCacheDump(1)
    \/ Return(1, FALSE, TRUE)
    \/ \E enabled \in BOOLEAN : th[1].pc = "idle" /\ ToggleAI(enabled)

SpecOff == Init /\ [][NextOff]_vars

\* one caller after the other: the three cached methods
OptAnswers == {AnsBlank, AnsShort, AnsLongA, AnsLongC}
AllReplies == Replies(EvalContents) \cup Replies(QuestionContents) \cup Replies(ResumeContents)

NextOpt ==
    \/ \E a \in OptAnswers, r \in Roles : EvaluateAnswer(1, QuestionDesign, a, r)
    \/ \E rd \in ResumeDatas, r \in Roles : GenerateQuestions(1, rd, r)
    \/ \E x \in ResumeTexts : AnalyzeResume(1, x)
    \/ \E resp \in AllReplies : ApiReturn(1, resp)
    \/ SetCacheOpen(1)
    \/ SetCacheDump(1)
    \/ Return(1, FALSE, FALSE)
    \/ \E enabled \in BOOLEAN : th[1].pc = "idle" /\ ToggleAI(enabled)

SpecOpt == Init /\ [][NextOpt]_vars

\* two request threads of one process inside evaluate_answer at the same time
ConcAnswers == {AnsLongA, AnsLongB, AnsLongC}
ConcReplies ==
    {r \in Replies(EvalContents) :
        \/ r.kind = "timeout"
        \/ /\ r.code = 200 /\ r.body.shape = "ok" /\ r.body.content.shape = "json"
           /\ "feedback" \notin DOMAIN r.body.content.data \/ r.body.content.data.feedback # ""}

NextConc ==
    \E t \in Threads :
        \/ \E a \in ConcAnswers, r \in Roles : EvaluateAnswer(t, QuestionTech, a, r)
        \/ \E resp \in ConcReplies : ApiReturn(t, resp)
        \/ SetCacheOpen(t)
        \/ SetCacheDump(t)
        \/ Return(t, FALSE, FALSE)

SpecConc == Init /\ [][NextConc]_vars

\* DeepSeekAI.evaluate_answer called by two request threads
NextDS ==
    \E t \in Threads :
        \/ \E a \in Answers, r \in Roles : DeepSeekAI_evaluate_answer(t, QuestionTech, a, r)
        \/ \E resp \in DSReplies : DeepSeekAI_post_returns(t, resp)
        \/ DeepSeekAI_return(t)

SpecDS == Init /\ [][NextDS]_vars

\* the voice app serving two browser sessions, one request at a time; both are
\* interviewed, the report is asked for in the first
NextVoice ==
    \/ \E sid \in VSessions, resume \in VResumes, r \in Roles : upload_resume(1, sid, resume, r)
    \/ \E sid \in VSessions : start_voice_interview(1, sid)
    \/ \E sid \in VSessions : upload_voice_answer(1, sid, VHeard(sid))
    \/ \E now \in 1..MaxTime : complete_voice_interview(1, "voice_s1", now)
    \/ download_voice_report(1, "voice_s1")
    \/ McpServe
    \/ McpReadline(1)
    \/ upload_voice_answer_increment(1)
    \/ VReturn(1)

SpecVoice == Init /\ [][NextVoice]_vars

\* one browser session whose interview is set up by one request after the other
\* and whose answers are uploaded by two requests at the same time
NextVoiceConc ==
    \/ \E resume \in VResumes, r \in Roles :
            vth[2].pc = "idle" /\ upload_resume(1, "voice_s1", resume, r)
    \/ vth[2].pc = "idle" /\ start_voice_interview(1, "voice_s1")
    \/ \E t \in Threads :
        \/ /\ \A u \in Threads : vth[u].handler \in {"none", "upload_voice_answer"}
           /\ upload_voice_answer(t, "voice_s1", VHeard("voice_s1"))
        \/ McpReadline(t)
        \/ upload_voice_answer_increment(t)
        \/ VReturn(t)
    \/ McpServe

SpecVoiceConc == Init /\ [][NextVoiceConc]_vars

\* one browser session, one request at a time, the client keeping the responses
NextReport ==
    \/ \E resume \in VResumes, r \in Roles : upload_resume(1, "voice_s1", resume, r)
    \/ start_voice_interview(1, "voice_s1")
    \/ upload_voice_answer(1, "voice_s1", VHeard("voice_s1"))
    \/ \E now \in 1..MaxTime : complete_voice_interview(1, "voice_s1", now)
    \/ download_voice_report(1, "voice_s1")
    \/ McpServe
    \/ McpReadline(1)
    \/ upload_voice_answer_increment(1)
    \/ VRespond(1)

SpecReport == Init /\ [][NextReport]_vars

\* professional_app serving requests on two threads
NextProf ==
    \/ \E r \in Roles : prof_upload_resume([name |-> "Ann"], r)
    \/ \E p \in Threads :
        \/ \E a \in ProfAnswers : submit_answer(p, a)
        \/ \E resp \in ProfReplies : ApiReturn(p, resp)
        \/ SetCacheOpen(p)
        \/ SetCacheDump(p)
        \/ submit_answer_append(p)
        \/ submit_answer_increment(p)
        \/ PReturn(p)

SpecProf == Init /\ [][NextProf]_vars

\* one caller after the other: any question and role, the assist toggled, the
\* remote service replying with any score and decision
ScoreCalls == {<<QuestionTech, "Backend Developer">>, <<QuestionDesign, "Data Scientist">>}
ScoreReplies ==
    {[kind |-> "timeout", code |-> 0, body |-> None],
     Http(200, [shape |-> "ok", content |-> Content("text", EmptyDict)])}
        \cup {Http(200, [shape |-> "ok", content |-> c]) : c \in ScoreContents}

NextScore ==
    \/ \E c \in ScoreCalls, a \in Answers : EvaluateAnswer(1, c[1], a, c[2])
    \/ \E resp \in ScoreReplies : ApiReturn(1, resp)
    \/ SetCacheOpen(1)
    \/ SetCacheDump(1)
    \/ Return(1, FALSE, FALSE)
    \/ \E enabled \in BOOLEAN : th[1].pc = "idle" /\ ToggleAI(enabled)

SpecScore == Init /\ [][NextScore]_vars

\* two callers whose inputs differ by whitespace or by the order of the skills
KeyAnswers == {AnsLongA, AnsLongSp}
KeyReplies ==
    {[kind |-> "timeout", code |-> 0, body |-> None],
     Http(200, [shape |-> "ok", content |->
        Content("json", [score |-> 80, feedback |-> "Good answer", decision |-> "Hire"])]),
     Http(200, [shape |-> "ok", content |->
        Content("list", <<[q |-> "Why Python?", cat |-> "Technical"],
                          [question |-> "Why AWS?"]>>)])}

NextKey ==
    \E t \in Threads :
        \/ \E a \in KeyAnswers, r \in Roles : EvaluateAnswer(t, QuestionTech, a, r)
        \/ \E rd \in ResumeDatas, r \in Roles : GenerateQuestions(t, rd, r)
        \/ \E resp \in KeyReplies : ApiReturn(t, resp)
        \/ SetCacheOpen(t)
        \/ SetCacheDump(t)
        \/ Return(t, FALSE, FALSE)

SpecKey == Init /\ [][NextKey]_vars

\* the verdict of an answer and the level of a session, for any score
NextDecision ==
    \/ \E x \in DecisionScores, a \in Analyses : make_hiring_decision(x, a)
    \/ \E x \in DecisionScores : final_assessment(x)

SpecDecision == Init /\ [][NextDecision]_vars

\* the results of sessions, the same evaluations in different orders
NextResults == \E evaluations \in EvaluationLists : results(evaluations)

SpecResults == Init /\ [][NextResults]_vars

\* profile extraction of any text
NextParse == \E text \in Texts : parse(text)

SpecParse == Init /\ [][NextParse]_vars

\* the experience estimates of a text, and of the text with more evidence
NextExperience ==
    \/ \E text \in ShortTexts : extract_experience_years(text)
    \/ \E text \in ShortTexts : extract_experience(text)
    \/ \E line \in EvidenceLines : more_evidence(line)

SpecExperience == Init /\ [][NextExperience]_vars

\* two dimensions of an evaluation, of the same or of different answers
NextDimensions ==
    \/ \E answer \in DimensionAnswers, p \in Profiles : evaluate_technical_mastery(answer, p)
    \/ \E answer \in DimensionAnswers : evaluate_communication_excellence(answer)

SpecDimensions == Init /\ [][NextDimensions]_vars

\* one caller after the other on the constructed instance, toggle_ai never called
NextFresh ==
    \/ \E a \in OptAnswers, r \in Roles : EvaluateAnswer(1, QuestionDesign, a, r)
    \/ \E rd \in ResumeDatas, r \in Roles : GenerateQuestions(1, rd, r)
    \/ \E resp \in Replies(EvalContents) \cup Replies(QuestionContents) : ApiReturn(1, resp)
    \/ SetCacheOpen(1)
    \/ SetCacheDump(1)
    \/ Return(1, FALSE, FALSE)

SpecFresh == Init /\ [][NextFresh]_vars

\* professional_app serving one request at a time
NextProfSeq ==
    \/ \E r \in Roles : pth[1].pc = "idle" /\ prof_upload_resume([name |-> "Ann"], r)
    \/ get_question(1)
    \/ \E a \in ProfAnswers : submit_answer(1, a)
    \/ \E resp \in ProfReplies : ApiReturn(1, resp)
    \/ SetCacheOpen(1)
    \/ SetCacheDump(1)
    \/ submit_answer_append(1)
    \/ submit_answer_increment(1)
    \/ prof_get_results(1)
    \/ PReturn(1)

SpecProfSeq == Init /\ [][NextProfSeq]_vars

\* calls of generate_extreme_questions on one ExtremeQuestions instance
NextExtreme == \E replies \in ModelReplies : extreme_questions(replies)

SpecExtreme == Init /\ [][NextExtreme]_vars

----------------------------------------------------------------------------
(* Claims about the cache of OptimizedDeepSeekAI *)

Events(c, e) == {i \in 1..Len(c.trace) : c.trace[i] = e}
ApiCalls(c) == Cardinality(Events(c, "api"))
ServedFromCache(c) == c.trace = <<"get">> /\ c.looked.file = "complete"
QualifiesForAssist(c) ==
    c.op = "evaluate_answer" /\ c.ai /\ WordCount(c.args.answer) >= MinAIWords

\* C1: evaluate_answer and generate_questions write a cache entry only for a parsed
\* assist result; a failed call or an unparseable reply leads to no cache write.
C1_CacheWriteOnlyOnAssistResult ==
    \A t \in Threads :
        (th[t].pc \in {"set_cache", "dump"}
            /\ th[t].op \in {"evaluate_answer", "generate_questions"})
        => th[t].outcome = "parsed"

\* C2: of two evaluate_answer calls with identical (question, answer, role), assist
\* enabled and the answer long enough, the second is served from the cache and the
\* remote client is invoked at most once over the two.
C2_SecondCallCached ==
    (th[1].pc = "done" /\ QualifiesForAssist(th[1]) /\ QualifiesForAssist(prev)
        /\ prev.args = th[1].args)
    => (ServedFromCache(th[1]) /\ ApiCalls(prev) + ApiCalls(th[1]) <= 1)

\* the earlier call left an entry: it stored its evaluation or was served from the cache
LeftEntry(c) == Events(c, "set") # {} \/ c.trace = <<"get">>

\* C2 amended: the same, provided the first call stored its evaluation in the cache
\* or was itself served from it.
C2_SecondCallCachedAfterStore ==
    (th[1].pc = "done" /\ QualifiesForAssist(th[1]) /\ QualifiesForAssist(prev)
        /\ prev.args = th[1].args /\ LeftEntry(prev))
    => (ServedFromCache(th[1]) /\ ApiCalls(prev) + ApiCalls(th[1]) <= 1)

C2_Witness ==
    /\ th[1].pc = "done" /\ QualifiesForAssist(th[1]) /\ QualifiesForAssist(prev)
    /\ prev.args = th[1].args
    /\ ApiCalls(prev) = 1 /\ Events(prev, "set") # {}
    /\ ServedFromCache(th[1])

\* C3: in the three cached methods the lookup precedes any remote call, and a lookup
\* that finds an entry returns the stored value with no remote call and no cache write.
C3_LookupFirstAndHitReturnsStored ==
    \A t \in Threads :
        /\ (th[t].pc \in {"api", "set_cache", "dump"} \/ th[t].trace # <<>>)
                => th[t].trace[1] = "get"
        /\ (th[t].trace # <<>> /\ th[t].looked.file = "complete")
                => /\ th[t].pc = "done"
                   /\ th[t].trace = <<"get">>
                   /\ th[t].result = th[t].looked.data

C3_Witness ==
    /\ th[1].op = "analyze_resume" /\ th[1].pc = "done"
    /\ th[1].looked.file = "complete" /\ th[1].result = th[1].looked.data
    /\ th[1].trace = <<"get">>

EvaluationFields == {"overall_score", "dimension_scores", "detailed_feedback", "hiring_decision"}

SameShape(e, f) ==
    /\ DOMAIN e = DOMAIN f
    /\ DOMAIN e.dimension_scores = DOMAIN f.dimension_scores
    /\ DOMAIN e.hiring_decision = DOMAIN f.hiring_decision

CompleteEvaluation(e) ==
    /\ DOMAIN e = EvaluationFields
    /\ DOMAIN e.dimension_scores = Dimensions
    /\ e.detailed_feedback # ""
    /\ "decision" \in DOMAIN e.hiring_decision

\* C4: whatever the remote call does, evaluate_answer returns an evaluation with an
\* overall score, the six dimension scores, a non-empty feedback and a decision.
C4_EvaluationAlwaysComplete ==
    \A t \in Threads :
        (th[t].pc = "done" /\ th[t].op = "evaluate_answer" /\ ApiCalls(th[t]) > 0)
        => CompleteEvaluation(th[t].result)

AssistBackedEvaluation ==
    _parse_evaluation(Content("json", [score |-> 80, feedback |-> "Good answer",
                                       decision |-> "Hire"]), AnsLongA)

\* C7: with assist disabled by toggle_ai(False), evaluate_answer makes no remote call
\* and returns an evaluation with the fields of an assist-backed evaluation, for a
\* session of 5 answers.
C7_DisabledAssistSameShape ==
    \A t \in Threads :
        (th[t].op = "evaluate_answer" /\ ~th[t].ai)
        => /\ th[t].pc = "done"
           /\ ApiCalls(th[t]) = 0
           /\ SameShape(th[t].result, AssistBackedEvaluation)

C7_Witness ==
    /\ n_off = SessionLen - 1
    /\ th[1].pc = "done" /\ th[1].op = "evaluate_answer" /\ ~th[1].ai
    /\ WordCount(th[1].args.answer) >= MinAIWords
    /\ SameShape(th[1].result, AssistBackedEvaluation)

\* C10: once a cache key has a stored value, no later write puts a different value
\* under it, and a reader gets no entry or a complete one.
C10_CacheEntriesImmutable ==
    /\ \A k \in CacheKeys :
            cache[k].file = "complete" => cache[k].data = cache_first[k]
    /\ \A t \in Threads :
            th[t].looked.file = "complete" => DOMAIN th[t].looked.data = EvaluationFields

----------------------------------------------------------------------------
(* Claims about the remote calls *)

UnavailableReplies == {r \in DSReplies : DSOutcome(r) = "unavailable"}

\* C5: a reply that cannot be parsed is handled like an unavailable remote call:
\* for the same (question, answer, role) evaluate_answer returns the evaluation it
\* returns when the call fails.
C5_UnparseableLikeUnavailable ==
    /\ \A t \in Threads :
            (ds[t].pc = "done" /\ ds[t].outcome = "unparseable")
            => \A r \in UnavailableReplies :
                    ds[t].result = DeepSeekAI_result(ds[t].args.answer, r)
    /\ \A t \in Threads :
            (th[t].pc = "done" /\ th[t].op = "evaluate_answer"
                /\ th[t].outcome = "unparseable")
            => th[t].result = Fallback(th[t])

\* the remote calls a thread is waiting in, each with the timeout it was given
PendingCalls ==
    {[client |-> "OptimizedDeepSeekAI._api_call", thread |-> t,
      timeout |-> Seconds(ApiTimeout)] : t \in {u \in Threads : th[u].pc = "api"}}
    \cup {[client |-> "DeepSeekAI.evaluate_answer", thread |-> t,
           timeout |-> DeepSeekAI_timeout] : t \in {u \in Threads : ds[u].pc = "post"}}
    \cup {[client |-> "call_mcp_tool", thread |-> t,
           timeout |-> readline_timeout] : t \in {u \in Threads : vth[u].pc = "readline"}}

\* C6: every remote call made while an answer is evaluated is bounded by a fixed
\* timeout: no thread waits in a remote call that has none.
C6_RemoteCallsBounded == \A call \in PendingCalls : call.timeout # None

----------------------------------------------------------------------------
(* Claims about sessions *)

\* C8: the final report produced for a session holds exactly the evaluations
\* submitted in that session, whatever other sessions started or answered.
C8_ReportOfOwnSession ==
    \A t \in Threads :
        (vth[t].handler = "complete_voice_interview" /\ vth[t].pc = "done"
            /\ "report" \in DOMAIN vth[t].response)
        => LET own == Deref(vth[t].ref).voice_evaluations
               reported == vth[t].response.report.detailed_evaluations
           IN  /\ Len(reported) = Len(own)
               /\ vth[t].response.report.interview_summary.total_questions = Len(own)
               /\ \A i \in 1..Len(own) :
                    /\ reported[i].answer = own[i].transcription.text
                    /\ reported[i].evaluation = own[i].evaluation

\* C9: in professional_app the i-th stored evaluation is the evaluation of the i-th
\* question, also when answer requests overlap.
C9_EvaluationsMatchQuestions ==
    "questions" \in DOMAIN professional_session
    => \A i \in 1..Len(professional_session.evaluations) :
            /\ i <= Len(professional_session.questions)
            /\ professional_session.evaluations[i].question_data
                    = professional_session.questions[i]

----------------------------------------------------------------------------
(* Claims about the cache key *)

\* " ".join(s.split()): runs of spaces become one, none at either end
KeptChar(p) == p.c # SP \/ p.after_word

NormalizedText(s) ==
    LET marked == [i \in 1..Len(s) |->
                    [c |-> s[i], after_word |-> i > 1 /\ s[i - 1] # SP]]
        kept == SelectSeq(marked, KeptChar)
        text == [i \in 1..Len(kept) |-> kept[i].c]
    IN  IF text # <<>> /\ text[Len(text)] = SP
        THEN SubSeq(text, 1, Len(text) - 1) ELSE text

SkillSet(resume_data) ==
    LET skills == Get(resume_data, "skills", <<>>)
    IN  {skills[i] : i \in 1..Len(skills)}

\* two calls with the same logical input
SameLogicalInput(c, d) ==
    /\ c.op = d.op
    /\ c.op \in {"evaluate_answer", "generate_questions"}
    /\ c.args.role = d.args.role
    /\ c.op = "evaluate_answer" =>
            /\ NormalizedText(c.args.question) = NormalizedText(d.args.question)
            /\ NormalizedText(c.args.answer) = NormalizedText(d.args.answer)
    /\ c.op = "generate_questions" =>
            /\ Get(c.args.resume_data, "experience_years", 0)
                    = Get(d.args.resume_data, "experience_years", 0)
            /\ SkillSet(c.args.resume_data) = SkillSet(d.args.resume_data)

\* C11: two requests whose role, question and answer (or role, experience and
\* skill set) differ only by incidental whitespace or by the order of the
\* skills get the identical cache key.
C11_KeyOfNormalizedInput ==
    \A t \in Threads, u \in Threads :
        (th[t].key # None /\ th[u].key # None /\ SameLogicalInput(th[t], th[u]))
            => th[t].key = th[u].key

----------------------------------------------------------------------------
(* Claims about the scores of an evaluation *)

Returned(t) == th[t].op = "evaluate_answer" /\ th[t].pc = "done"

\* an answer that is empty or holds nothing but whitespace
EmptyOrWhitespace(answer) == {answer[i] : i \in DOMAIN answer} \subseteq {SP}

\* C12: for an empty or whitespace-only answer, for any question and role and
\* with assist enabled or disabled, evaluate_answer returns overall_score 20,
\* communication 10 and decision "No Hire", without any remote call or cache
\* access.
C12_BlankAnswerFloor ==
    \A t \in Threads :
        (Returned(t) /\ EmptyOrWhitespace(th[t].args.answer)) =>
            /\ th[t].result.overall_score = 20
            /\ th[t].result.dimension_scores.communication = 10
            /\ th[t].result.hiring_decision.decision = "No Hire"
            /\ th[t].trace = <<>>
            /\ th[t].key = None

C12_Witness ==
    /\ Returned(1)
    /\ th[1].args = [question |-> QuestionDesign, answer |-> AnsBlank, role |-> "Data Scientist"]
    /\ th[1].ai
    /\ th[1].result = _poor_evaluation
    /\ \E k \in CacheKeys : cache[k] # NoFile

InRange(x) == x \in 0..100

ScoresInRange(e) ==
    /\ InRange(e.overall_score)
    /\ \A d \in Dimensions : InRange(e.dimension_scores[d])

\* C13: for every answer and every response the remote service may return,
\* the evaluation returned by evaluate_answer (of OptimizedDeepSeekAI and of
\* DeepSeekAI) has its overall score and each of its six dimension scores
\* within [0,100].
C13_ScoresInRange ==
    \A t \in Threads :
        /\ Returned(t) => ScoresInRange(th[t].result)
        /\ ds[t].pc = "done" => ScoresInRange(ds[t].result)

\* the part of C13 that is about OptimizedDeepSeekAI
OptimizedScoresInRange == \A t \in Threads : Returned(t) => ScoresInRange(th[t].result)

\* C14: the empty-answer evaluation is the minimum floor of every dimension:
\* for every answer, each dimension score returned by evaluate_answer is at
\* least the score the empty answer gets on that dimension.
C14_EmptyAnswerIsFloor ==
    \A t \in Threads :
        Returned(t) =>
            \A d \in Dimensions :
                th[t].result.dimension_scores[d] >= _poor_evaluation.dimension_scores[d]

\* the verdict values: the five levels of advanced_evaluator.py (lines 396-412)
\* and the two that _basic_evaluation, _poor_evaluation and the default of
\* _parse_evaluation give
Verdicts ==
    {"STRONG HIRE", "HIRE", "LEAN HIRE", "LEAN NO HIRE", "NO HIRE",
     "Strong Hire", "Hire", "Lean Hire", "Lean No Hire", "No Hire"}

\* C15: the decision of every evaluation returned by evaluate_answer is one of
\* the fixed verdict values and its confidence (in thousandths) is within
\* [0,1], whatever the remote service returns.
C15_DecisionIsVerdict ==
    \A t \in Threads :
        Returned(t) =>
            /\ th[t].result.hiring_decision.decision \in Verdicts
            /\ th[t].result.hiring_decision.confidence \in 0..1000

\* the part of C15 that is about the confidence
ConfidenceInUnitInterval ==
    \A t \in Threads :
        Returned(t) => th[t].result.hiring_decision.confidence \in 0..1000

----------------------------------------------------------------------------
(* Claims about the verdict *)

\* the order of the verdicts and of the levels, lowest first
VerdictRank(result) ==
    LET v == IF "decision" \in DOMAIN result THEN result.decision ELSE result.level
    IN
    CASE v \in {"NO HIRE", "FOUNDATION BUILDING NEEDED"} -> 0
      [] v \in {"LEAN NO HIRE", "DEVELOPING - Mid Level"} -> 1
      [] v \in {"LEAN HIRE", "GOOD - Mid-Senior Level"} -> 2
      [] v \in {"HIRE", "STRONG - Senior Level"} -> 3
      [] v \in {"STRONG HIRE", "EXCEPTIONAL - Senior+ Level"} -> 4

VerdictCalls == {"_make_hiring_decision", "generate_final_assessment"}

\* C16: the verdict mapping is total and monotone in the score: every score
\* maps to exactly one verdict, and for any two results with overall scores
\* s1 < s2 the verdict for s2 is never strictly lower than the verdict for s1.
C16_VerdictTotalAndMonotone ==
    \A i \in DOMAIN calls, j \in DOMAIN calls :
        (calls[i].fn \in VerdictCalls /\ calls[j].fn = calls[i].fn) =>
            /\ calls[i].result # Raises
            /\ calls[j].result # Raises
            /\ calls[i].args.score = calls[j].args.score
                    => calls[i].result = calls[j].result
            /\ calls[i].args.score < calls[j].args.score
                    => VerdictRank(calls[i].result) <= VerdictRank(calls[j].result)

\* the part of C16 that is about the level of generate_final_assessment
LevelTotalAndMonotone ==
    \A i \in DOMAIN calls, j \in DOMAIN calls :
        (calls[i].fn = "generate_final_assessment" /\ calls[j].fn = calls[i].fn
         /\ calls[i].args.score <= calls[j].args.score)
            => VerdictRank(calls[i].result) <= VerdictRank(calls[j].result)

\* the part of C16 that is about one calibration: with the same numeric
\* calibrated_score the verdict of _make_hiring_decision is monotone in the score
VerdictMonotoneAtOneCalibration ==
    \A i \in DOMAIN calls, j \in DOMAIN calls :
        (calls[i].fn = "_make_hiring_decision" /\ calls[j].fn = calls[i].fn
         /\ calls[i].args.ai_analysis = calls[j].args.ai_analysis
         /\ calls[i].result # Raises /\ calls[j].result # Raises
         /\ calls[i].args.score <= calls[j].args.score)
            => VerdictRank(calls[i].result) <= VerdictRank(calls[j].result)

----------------------------------------------------------------------------
(* Claims about the results of a session *)

\* the sum of x(i) over a set of indexes, in no order
RECURSIVE Total(_, _)
Total(x(_), indexes) ==
    IF indexes = {} THEN 0
    ELSE LET i == CHOOSE i \in indexes : TRUE IN x(i) + Total(x, indexes \ {i})

\* q is the arithmetic mean of x(i), i in indexes
IsMeanOf(q, x(_), indexes) == q.num * Cardinality(indexes) = q.den * Total(x, indexes)

SameEvaluations(a, b) ==
    /\ Len(a) = Len(b)
    /\ \A e \in AggEvaluations :
            Cardinality({i \in DOMAIN a : a[i].evaluation = e})
                = Cardinality({i \in DOMAIN b : b[i].evaluation = e})

ResultsCalls == {i \in DOMAIN calls : calls[i].fn = "get_results" /\ calls[i].result # Raises}

----------------------------------------------------------------------------
(* Claims about profile extraction *)

ProfileFields ==
    {"name", "email", "phone", "location", "linkedin", "github", "skills",
     "experience_years", "education", "certifications", "projects",
     "work_experience", "languages", "summary", "ats_score", "technical_depth",
     "leadership_score", "raw_text"}

ParseCalls == {i \in DOMAIN calls : calls[i].fn = "parse_resume"}

\* C18: for every document text, including empty text and text with any
\* combination of year and date-range mentions, parse_resume returns a
\* profile with every field present and never raises.
C18_ProfileAlwaysComplete ==
    \A i \in ParseCalls :
        /\ calls[i].result # Raises
        /\ DOMAIN calls[i].result = ProfileFields

\* C19: for an empty document text, the returned profile has name
\* "Candidate", an empty email, skills.total_count 0 and ats_score at most 15.
C19_EmptyTextProfile ==
    \A i \in ParseCalls :
        calls[i].args.text = <<>> =>
            /\ calls[i].result.name = "Candidate"
            /\ calls[i].result.email = ""
            /\ calls[i].result.skills.total_count = 0
            /\ calls[i].result.ats_score <= 15

ExperienceCalls ==
    {i \in DOMAIN calls : calls[i].fn \in {"_extract_experience_years", "_extract_experience"}}

\* the two estimates of a text: the largest stated number of years, and the
\* years spanned by its date ranges
StatedYears(text) ==
    LET stated == OfKind(text, {"years"}) IN SetMax({stated[i].n : i \in DOMAIN stated})
SpannedYears(text) ==
    LET ranges == OfKind(text, {"range", "present"})
    IN  Sum([i \in DOMAIN ranges |-> Max(0, ranges[i].end - ranges[i].start)])

\* C20: experience_years is always within [0,30] for every document text: the
\* final value is the maximum of the explicit-years estimate and the year-span
\* estimate, clamped to [0,30], and adding further or larger year-range
\* evidence to an otherwise identical text never lowers it.
C20_ExperienceClampedAndMonotone ==
    /\ \A i \in ExperienceCalls :
            /\ calls[i].result # Raises
            /\ calls[i].result.value \in 0..ExperienceCap
            /\ calls[i].fn = "_extract_experience_years" =>
                    calls[i].result.value =
                        Min(ExperienceCap, Max(StatedYears(calls[i].args.text),
                                               SpannedYears(calls[i].args.text)))
    /\ (ExperienceCalls = {1, 2}) => calls[1].result.value >= calls[2].result.value

\* the part of C20 that holds of _extract_experience_years: more evidence
\* never lowers its value
EnhancedExperienceMonotone ==
    (ExperienceCalls = {1, 2} /\ calls[1].fn = "_extract_experience_years")
        => calls[1].result.value >= calls[2].result.value

\* C21: in every profile returned by parse_resume, including the default
\* profile returned for empty or unreadable documents, each derived score is
\* the value its _calculate_ function gives for that profile's own fields.
C21_DerivedScoresOfOwnFields ==
    \A i \in ParseCalls :
        calls[i].result # Raises =>
            /\ calls[i].result.ats_score = _calculate_ats_score(calls[i].result)
            /\ calls[i].result.technical_depth = _calculate_technical_depth(calls[i].result)
            /\ calls[i].result.leadership_score = _calculate_leadership_score(calls[i].result)

\* the part of C21 that is about the non-empty texts
ParsedScoresOfOwnFields ==
    \A i \in ParseCalls :
        (calls[i].result # Raises /\ calls[i].args.text # <<>>) =>
            /\ calls[i].result.ats_score = _calculate_ats_score(calls[i].result)
            /\ calls[i].result.technical_depth = _calculate_technical_depth(calls[i].result)
            /\ calls[i].result.leadership_score = _calculate_leadership_score(calls[i].result)

----------------------------------------------------------------------------
(* Claims about the dimensions of the advanced evaluation *)

DimensionCalls ==
    {i \in DOMAIN calls :
        calls[i].fn \in {"_evaluate_technical_mastery", "_evaluate_communication_excellence"}}

\* the sum of the sub-signals of the dimension evaluated by call i
Signals(i) ==
    IF calls[i].fn = "_evaluate_technical_mastery"
    THEN technical_signals(calls[i].args.answer, calls[i].args.candidate_profile)
    ELSE communication_signals(calls[i].args.answer)

\* answers below every dimension's length threshold for a full score
ShortAnswerWords == 200

\* C22: the short-answer penalty is one operation with one set of thresholds:
\* evaluations of any dimensions whose sub-signals sum to the same value, of
\* answers of the same short length, receive the same score.
C22_SamePenaltyInEveryDimension ==
    \A i \in DimensionCalls, j \in DimensionCalls :
        /\ calls[i].args.answer.word_count = calls[j].args.answer.word_count
        /\ calls[i].args.answer.word_count < ShortAnswerWords
        /\ Signals(i) = Signals(j)
        => calls[i].result = calls[j].result

\* the part of C22 within one dimension: the score is a function of the summed
\* sub-signals and the length alone, so the penalty is applied to the sum, once
PenaltyOncePerDimension ==
    \A i \in DimensionCalls, j \in DimensionCalls :
        /\ calls[i].fn = calls[j].fn
        /\ calls[i].args.answer.word_count = calls[j].args.answer.word_count
        /\ Signals(i) = Signals(j)
        => calls[i].result = calls[j].result

----------------------------------------------------------------------------
(* Claims about the construction of OptimizedDeepSeekAI *)

\* C23: on an instance constructed with no API key, as long as toggle_ai(True)
\* has not been called, external assist is disabled and neither
\* evaluate_answer nor generate_questions attempts a remote call.
C23_NoKeyNoRemoteCall ==
    /\ ~use_ai
    /\ \A t \in Threads : th[t].pc # "api" /\ ApiCalls(th[t]) = 0

----------------------------------------------------------------------------
(* Claims about concurrent requests of the voice app *)

\* a request that changes the stored interview is under way
VoiceBusy == \E t \in Threads : vth[t].pc \notin {"idle", "done"}

Interviews ==
    {Deref(session_storage[sid]) : sid \in DOMAIN session_storage}

\* C24: when the answer uploads of a session have completed, also uploads that
\* ran at the same time, no evaluation or increment is lost: the question index
\* of the session is the number of its stored evaluations.
C24_NoLostAnswer ==
    ~VoiceBusy =>
        \A d \in Interviews :
            "voice_evaluations" \in DOMAIN d
                => d.current_question_index = Len(d.voice_evaluations)


\* thread t returns from mcp_process.stdout.readline() with a response line
TakesResponse(t) ==
    /\ vth[t].pc = "readline"
    /\ vth'[t] # vth[t]
    /\ mcp_stdout # <<>>
    /\ mcp_stdout' = Tail(mcp_stdout)

\* C25: of two call_mcp_tool invocations under way at the same time, each takes
\* the response to the request it sent itself.
C25_ResponseToOwnRequest ==
    [][\A t \in Threads : TakesResponse(t) => Head(mcp_stdout).id = t]_vars

----------------------------------------------------------------------------
(* Claims about the session of professional_app, one request at a time *)

\* no request is being handled
BetweenRequests == \A p \in Threads : pth[p].pc \in {"idle", "done"}

SessionCounters ==
    LET s == professional_session
    IN  "questions" \in DOMAIN s =>
            /\ 0 <= s.current_question
            /\ s.current_question <= Len(s.questions)
            /\ Len(s.evaluations) = s.current_question

\* request thread p takes an /answer request when every question is answered
AnswerAtEnd(p) ==
    /\ pth[p].pc = "idle"
    /\ pth'[p].handler = "submit_answer"
    /\ "questions" \in DOMAIN professional_session
    /\ professional_session.current_question = Len(professional_session.questions)

Refused(p, error) ==
    /\ pth'[p].pc = "done"
    /\ pth'[p].response = [error |-> error]
    /\ professional_session' = professional_session

C27_NoResultsWithoutEvaluations ==
    \A p \in Threads :
        /\ pth[p].handler = "get_results"
        /\ pth[p].pc = "done"
        /\ Get(professional_session, "evaluations", <<>>) = <<>>
        => pth[p].response = [error |-> "No completed interview"]

----------------------------------------------------------------------------
(* Claims about the report of the voice app *)

\* the last two responses are a successful completion and then a download,
\* requested with the same session cookie
DownloadAfterCompletion ==
    /\ Len(calls) = 2
    /\ calls[2].fn = "complete_voice_interview"
    /\ "success" \in DOMAIN calls[2].result
    /\ calls[1].fn = "download_voice_report"
    /\ calls[1].args.session_id = calls[2].args.session_id

\* C28: the download request that follows a successful
\* complete_voice_interview of the same session cookie finds the stored
\* report, the one the completion returned; it is never answered with
\* 'No completed interview report available'.
C28_ReportFoundAfterCompletion ==
    DownloadAfterCompletion => calls[1].result = [report |-> calls[2].result.report]

C28_Witness ==
    /\ DownloadAfterCompletion
    /\ "report" \in DOMAIN calls[1].result

----------------------------------------------------------------------------
(* Claims about whose evaluation a caller receives *)

\* the evaluations evaluate_answer can compute for an answer, whatever the
\* remote service replies
EvaluationsOf(answer) ==
    {_poor_evaluation, _basic_evaluation(answer)}
        \cup {_parse_evaluation(content, answer) : content \in EvalContents}

----------------------------------------------------------------------------
(* Claims about the extreme questions *)

ExtremeCalls == {i \in DOMAIN calls : calls[i].fn = "generate_extreme_questions"}

PairwiseDistinct(questions) ==
    \A i \in DOMAIN questions, j \in DOMAIN questions :
        i # j => questions[i].question # questions[j].question

\* C30: every call of generate_extreme_questions, the first and every later
\* one on the same instance, with or without questions from the model,
\* returns 8 questions that are pairwise distinct.
C30_EightDistinctQuestions ==
    \A i \in ExtremeCalls :
        /\ Len(calls[i].result.questions) = ExtremeCount
        /\ PairwiseDistinct(calls[i].result.questions)

\* the part of C30 that holds: the questions of a call are pairwise distinct,
\* none was returned by an earlier call, and the first call without a question
\* from the model returns the 8 of the fallback list
ExtremeQuestionsNeverRepeat ==
    \A i \in ExtremeCalls :
        /\ PairwiseDistinct(calls[i].result.questions)
        /\ \A k \in DOMAIN calls[i].result.questions :
                calls[i].result.questions[k].question \notin calls[i].args.used_questions
        /\ (calls[i].args.used_questions = {}
                /\ \A k \in 1..ExtremeCount : calls[i].args.replies[k] = NoQuestion)
            => Len(calls[i].result.questions) = ExtremeCount

====
